---- MODULE Spec2Model ----
(***************************************************************************)
(* A model of the binary codec and container engine of the Gold Saucer     *)
(* randomiser (randomiser-core): the LZS codec, the field-script opcode    *)
(* walker, the text-table editor and the two archive containers.           *)
(*                                                                         *)
(* Byte buffers are sequences of integers 0..255; a Rust slice index k is  *)
(* the sequence index k + 1 (see At).  Fixed-size Rust arrays are          *)
(* functions over 0..size-1, so an out-of-range index is an evaluation     *)
(* error exactly where Rust would panic.                                   *)
(***************************************************************************)
EXTENDS Integers, Sequences, FiniteSets, TLC

VARIABLES
    lz_input,   \* the buffer handed to lzs_compress
    lz_pc,      \* position of the codec run
    enc,        \* local state of lzs_compress
    dec,        \* local state of the running lzs_decompress_raw call
    lz_comp,    \* Ok value of lzs_compress(lz_input)
    lz_raw,     \* result of lzs_decompress_raw(lz_comp)
    lz_arg,     \* the buffer handed to lzs_decompress
    lz_two,     \* result of lzs_decompress(lz_arg)
    lz_first,   \* what the header-prefixed attempt of lzs_decompress decoded
    w_buf,      \* the buffer a script walk runs over
    w_end,      \* the walk's region end
    w_i,        \* the walk's offset
    w_reads,    \* the buffer indices the last opcode_size_pc call read
    w_ret,      \* what the last opcode_size_pc call returned: {} before any call
    k_raw,      \* the bytes of a section-indexed container (KERNEL.BIN)
    k_pc,       \* position of the parse/build run over k_raw
    k_arch,     \* result of parse_kernel_archive(k_raw)
    k_out,      \* result of build_kernel_archive on the parsed archive
    g_raw,      \* the bytes of a named container (flevel.lgp)
    g_repl,     \* the replacement map handed to build_lgp_archive
    g_pc,       \* position of the parse/build run over g_raw
    g_arch,     \* result of parse_lgp_archive(g_raw)
    g_out,      \* result of build_lgp_archive(g_arch, g_raw, g_repl)
    t_buf,      \* the field buffer an in-place text patch works on
    t_call,     \* the patch call: its arguments and the buffer as it was
    t_ret,      \* what the call returned
    d_buf,      \* the field buffer add_dialog_entry_for_pickup works on
    d_orig,     \* the buffer as it was before the last call
    d_args,     \* the arguments of the last call
    d_ret,      \* the outcome of the last call
    d_calls,    \* the number of calls made
    d_first,    \* the buffer before the first call
    s_buf,      \* the buffer handed to get_pc_field_script_range
    s_ret,      \* what get_pc_field_script_range(s_buf) returned
    c_prog,     \* the instruction lines a source text was written from
    c_src,      \* the source text handed to compile_script_from_str
    c_ret,      \* what compile_script_from_str(c_src) returned
    r_buf,      \* the buffer handed to rewrite_vanilla_keystone_source
    r_orig,     \* that buffer as it was before the call
    r_ret,      \* what rewrite_vanilla_keystone_source returned
    kr_raw,     \* the bytes of KERNEL.BIN read by run
    kr_set,     \* the settings of the run
    kr_pc,      \* position of run in its kernel part
    kr_arch,    \* kernel_archive
    kr_k,       \* position of randomize_weapon_tables in archive.files
    kr_out,     \* the bytes written to the output KERNEL.BIN
    kr_call,    \* the last call of compress_kernel_section, decompress_kernel_section or build_kernel_archive
    kr_size,    \* content length of each section re-encoded so far, -1 for the others
    kr_fail,    \* the files whose decoding or encoding failed
    fl_k,       \* position of randomize_field_pickups_in_flevel in flevel_archive.entries
    fl_log      \* for each entry gone through, whether it was changed and the body registered for it

lzVars == <<lz_input, lz_pc, enc, dec, lz_comp, lz_raw, lz_arg, lz_two, lz_first>>
wkVars == <<w_buf, w_end, w_i, w_reads, w_ret>>

kaVars == <<k_raw, k_pc, k_arch, k_out>>

lgVars == <<g_raw, g_repl, g_pc, g_arch, g_out>>

txVars == <<t_buf, t_call, t_ret>>

dgVars == <<d_buf, d_orig, d_args, d_ret, d_calls, d_first>>

srVars == <<s_buf, s_ret>>

fcVars == <<c_prog, c_src, c_ret>>

rwVars == <<r_buf, r_orig, r_ret>>

krVars == <<kr_raw, kr_set, kr_pc, kr_arch, kr_k, kr_out, kr_call, kr_size, kr_fail>>

flVars == <<fl_k, fl_log>>

vars == <<lzVars, wkVars, kaVars, lgVars, txVars, dgVars, srVars, fcVars, rwVars, krVars, flVars>>

\* What each part of the model leaves alone.
lzRest == <<wkVars, kaVars, lgVars, txVars, dgVars, srVars, fcVars, rwVars, krVars, flVars>>
wkRest == <<lzVars, kaVars, lgVars, txVars, dgVars, srVars, fcVars, rwVars, krVars, flVars>>
kaRest == <<lzVars, wkVars, lgVars, txVars, dgVars, srVars, fcVars, rwVars, krVars, flVars>>
lgRest == <<lzVars, wkVars, kaVars, txVars, dgVars, srVars, fcVars, rwVars, krVars, flVars>>
txRest == <<lzVars, wkVars, kaVars, lgVars, dgVars, srVars, fcVars, rwVars, krVars, flVars>>
dgRest == <<lzVars, wkVars, kaVars, lgVars, txVars, srVars, fcVars, rwVars, krVars, flVars>>
srRest == <<lzVars, wkVars, kaVars, lgVars, txVars, dgVars, fcVars, rwVars, krVars, flVars>>
fcRest == <<lzVars, wkVars, kaVars, lgVars, txVars, dgVars, srVars, rwVars, krVars, flVars>>
rwRest == <<lzVars, wkVars, kaVars, lgVars, txVars, dgVars, srVars, fcVars, krVars, flVars>>
krRest == <<lzVars, wkVars, kaVars, lgVars, txVars, dgVars, srVars, fcVars, rwVars, flVars>>
flRest == <<lzVars, wkVars, kaVars, lgVars, txVars, dgVars, srVars, fcVars, rwVars, krVars>>

(***************************************************************************)
(* Helpers for byte buffers.                                               *)
(***************************************************************************)
At(buf, k) == buf[k + 1]

\* buf[a..b] of Rust: the bytes at indices a, a+1, ..., b-1.
Slice(buf, a, b) == [k \in 1..(b - a) |-> buf[a + k]]

Min(a, b) == IF a <= b THEN a ELSE b

Err == [ok |-> FALSE, val |-> <<>>]
Ok(v) == [ok |-> TRUE, val |-> v]

(***************************************************************************)
(* LZS codec: field.rs, lzs_compress / lzs_decompress_raw / lzs_decompress *)
(***************************************************************************)
N == 4096
F == 18
NIL == 4096

\* A Rust indexed store f[i] = v; an index outside the array is a panic,
\* which shows as an evaluation error (f[i] is undefined there).
Put(f, i, v) == IF i \in DOMAIN f THEN [f EXCEPT ![i] = v] ELSE f[i]

\* `if c { f[i] = v; }`
PutIf(c, f, i, v) == IF c THEN Put(f, i, v) ELSE f

\* The comparison stopping one byte early.
RECURSIVE CompareLenShort(_, _, _, _)
CompareLenShort(tb, key, p, i) ==
    IF i < F - 1 /\ tb[key + i] = tb[p + i] THEN CompareLenShort(tb, key, p, i + 1) ELSE i

\* insert_node's inner `while i < F` comparison: the first i >= 1 at which the
\* string at key and the string at p differ, F when the F bytes agree.
RECURSIVE CompareLen(_, _, _, _)
CompareLen(tb, key, p, i) ==
    IF i < F /\ tb[key + i] = tb[p + i] THEN CompareLen(tb, key, p, i + 1) ELSE i

\* insert_node after its loop broke on a full-length match: r takes p's place.
\* dad[r] = dad[p]; lson[r] = lson[p]; rson[r] = rson[p];
ReplaceCopy(r, e, p) ==
    [e EXCEPT !.dad = Put(e.dad, r, e.dad[p]),
              !.lson = Put(e.lson, r, e.lson[p]),
              !.rson = Put(e.rson, r, e.rson[p])]

\* if lson[p] != NIL { dad[lson[p]] = r }
ReplaceLeft(r, e, p) ==
    [e EXCEPT !.dad = PutIf(e.lson[p] # NIL, e.dad, e.lson[p], r)]

\* if rson[p] != NIL { dad[rson[p]] = r }
ReplaceRight(r, e, p) ==
    [e EXCEPT !.dad = PutIf(e.rson[p] # NIL, e.dad, e.rson[p], r)]

\* the parent's link to p becomes a link to r; dad[p] = NIL
ReplaceParent(r, e, p) ==
    [e EXCEPT !.rson = PutIf(e.dad[p] # NIL /\ e.rson[e.dad[p]] = p, e.rson, e.dad[p], r),
              !.lson = PutIf(e.dad[p] # NIL /\ e.rson[e.dad[p]] # p, e.lson, e.dad[p], r),
              !.dad = Put(e.dad, p, NIL)]

\* The full-length match leaving the older node p in the tree.
InsertKeep(r, e, p) == e

InsertReplace(r, e, p) ==
    ReplaceParent(r, ReplaceRight(r, ReplaceLeft(r, ReplaceCopy(r, e, p), p), p), p)

\* The comparison `i > *match_length` that decides whether node p becomes the
\* recorded match.
BetterMatch(i, match_length) == i > match_length

\* The child the descent takes from p: rson when cmp >= 0, lson otherwise.
Child(e, p, cmp) == IF cmp >= 0 THEN e.rson[p] ELSE e.lson[p]

\* `rson[p] = r; dad[r] = p; return` (or lson)
Attach(r, e, p, cmp) ==
    IF cmp >= 0
    THEN [e EXCEPT !.rson = Put(e.rson, p, r), !.dad = Put(e.dad, r, p)]
    ELSE [e EXCEPT !.lson = Put(e.lson, p, r), !.dad = Put(e.dad, r, p)]

\* The sign-carrying difference the comparison loop leaves in cmp.
CmpAt(tb, r, p, i) == IF i < F THEN tb[r + i] - tb[p + i] ELSE 0

\* insert_node's `loop`, entered at node p with the last comparison result cmp;
\* Visit is the part of an iteration after p has moved to the child.
RECURSIVE InsertLoop(_, _, _, _)
Visit(r, e, p, i) ==
    IF BetterMatch(i, e.match_length)
    THEN IF i >= F
         THEN InsertReplace(r, [e EXCEPT !.match_position = p, !.match_length = i], p)
         ELSE InsertLoop(r, [e EXCEPT !.match_position = p, !.match_length = i], p,
                         CmpAt(e.text_buf, r, p, i))
    ELSE InsertLoop(r, e, p, CmpAt(e.text_buf, r, p, i))

Descend(r, e, p) == Visit(r, e, p, CompareLen(e.text_buf, r, p, 1))

InsertLoop(r, e, p, cmp) ==
    IF Child(e, p, cmp) = NIL
    THEN Attach(r, e, p, cmp)
    ELSE Descend(r, e, Child(e, p, cmp))

insert_node(r, e) ==
    InsertLoop(r,
               [e EXCEPT !.lson = Put(e.lson, r, NIL), !.rson = Put(e.rson, r, NIL),
                         !.match_length = 0],
               (N + 1) + e.text_buf[r], 1)

\* delete_node's `loop`: the rightmost node of the subtree below q.
RECURSIVE Rightmost(_, _)
Rightmost(rson, q) == IF rson[q] = NIL THEN q ELSE Rightmost(rson, rson[q])

\* rson[dad[q]] = lson[q]; if lson[q] != NIL { dad[lson[q]] = dad[q] }
DetachRightmost(e, q) ==
    [e EXCEPT !.rson = Put(e.rson, e.dad[q], e.lson[q]),
              !.dad = PutIf(e.lson[q] # NIL, e.dad, e.lson[q], e.dad[q])]

\* lson[q] = lson[p]
TakeLeft(e, p, q) == [e EXCEPT !.lson = Put(e.lson, q, e.lson[p])]

\* if lson[p] != NIL { dad[lson[p]] = q }
AdoptLeft(e, p, q) == [e EXCEPT !.dad = PutIf(e.lson[p] # NIL, e.dad, e.lson[p], q)]

\* rson[q] = rson[p]
TakeRight(e, p, q) == [e EXCEPT !.rson = Put(e.rson, q, e.rson[p])]

\* if rson[p] != NIL { dad[rson[p]] = q }
AdoptRight(e, p, q) == [e EXCEPT !.dad = PutIf(e.rson[p] # NIL, e.dad, e.rson[p], q)]

\* dad[q] = parent; the parent's link to p becomes a link to q; dad[p] = NIL
LinkParent(e, p, q, parent) ==
    [e EXCEPT !.rson = PutIf(e.rson[parent] = p, e.rson, parent, q),
              !.lson = PutIf(e.rson[parent] # p, e.lson, parent, q),
              !.dad = Put(Put(e.dad, q, parent), p, NIL)]

Unlink(e, p, q) == LinkParent(e, p, q, e.dad[p])

\* p has two children and its left child has a right child: q is the rightmost
\* node below the left child.
DeleteDeep(e, p, q) ==
    Unlink(AdoptRight(TakeRight(AdoptLeft(TakeLeft(DetachRightmost(e, q), p, q), p, q),
                                p, q), p, q), p, q)

\* p has two children and its left child q has no right child.
DeleteShallow(e, p, q) == Unlink(AdoptRight(TakeRight(e, p, q), p, q), p, q)

delete_node(p, e) ==
    IF e.dad[p] = NIL THEN e
    ELSE IF e.rson[p] = NIL THEN Unlink(e, p, e.lson[p])
    ELSE IF e.lson[p] = NIL THEN Unlink(e, p, e.rson[p])
    ELSE IF e.rson[e.lson[p]] # NIL
         THEN DeleteDeep(e, p, Rightmost(e.rson, e.rson[e.lson[p]]))
         ELSE DeleteShallow(e, p, e.lson[p])

\* code_buf[..code_buf_ptr]
CodeBytes(e) == [k \in 1..e.code_buf_ptr |-> e.code_buf[k - 1]]

\* lzs_compress up to the main loop: the arrays, the first F bytes read into
\* text_buf[r..], the F strings before r and the string at r inserted.
RECURSIVE InsertBefore(_, _)
InsertBefore(e, i) ==
    IF i <= F THEN InsertBefore(insert_node(e.r - i, e), i + 1) ELSE e

InsertAtR(e) == insert_node(e.r, e)

EncArrays(input, r0, len) ==
    [lson |-> [i \in 0..N |-> 0],
     rson |-> [i \in 0..(N + 256) |-> IF i >= N + 1 THEN NIL ELSE 0],
     dad  |-> [i \in 0..N |-> IF i < N THEN NIL ELSE 0],
     text_buf |-> [i \in 0..(N + F - 2) |->
                     IF i >= r0 /\ i < r0 + len THEN input[i - r0 + 1] ELSE 0],
     match_length |-> 0, match_position |-> 0,
     code_buf |-> [i \in 0..16 |-> 0], code_buf_ptr |-> 1, mask |-> 1,
     s |-> 0, r |-> r0, data_pos |-> len, len |-> len,
     result |-> <<>>,
     unit |-> [lit |-> TRUE, pos |-> 0, len |-> 0]]

EncInit(input) == InsertAtR(InsertBefore(EncArrays(input, N - F, Min(F, Len(input))), 1))

\* `if match_length > len { match_length = len; }`
EncClamp(e) == IF e.match_length > e.len THEN [e EXCEPT !.match_length = e.len] ELSE e

\* `if match_length <= 2`: the unit is a literal.
IsLiteral(match_length) == match_length <= 2

\* The two bytes of a position/length pair.
\* The pair with the length stored as it is.
PairBytesRawLength(match_position, match_length) ==
    << match_position % 256, ((match_position \div 256) % 16) * 16 + (match_length % 16) >>

PairBytes(match_position, match_length) ==
    << match_position % 256,
       ((match_position \div 256) % 16) * 16 + (match_length - (2 + 1)) >>

\* One unit written into code_buf: a flagged literal or a position/length pair.
EncUnit(e) ==
    IF IsLiteral(e.match_length)
    THEN [e EXCEPT !.match_length = 1,
                   !.code_buf = Put(Put(e.code_buf, 0, e.code_buf[0] + e.mask),
                                    e.code_buf_ptr, e.text_buf[e.r]),
                   !.code_buf_ptr = e.code_buf_ptr + 1,
                   !.unit = [lit |-> TRUE, pos |-> e.r, len |-> 1]]
    ELSE [e EXCEPT !.code_buf =
                       Put(Put(e.code_buf, e.code_buf_ptr,
                               PairBytes(e.match_position, e.match_length)[1]),
                           e.code_buf_ptr + 1,
                           PairBytes(e.match_position, e.match_length)[2]),
                   !.code_buf_ptr = e.code_buf_ptr + 2,
                   !.unit = [lit |-> FALSE, pos |-> e.match_position,
                             len |-> e.match_length]]

\* `mask <<= 1; if mask == 0 { flush }`
EncFlush(e) ==
    IF (e.mask * 2) % 256 = 0
    THEN [e EXCEPT !.result = e.result \o CodeBytes(e),
                   !.code_buf = Put(e.code_buf, 0, 0),
                   !.code_buf_ptr = 1, !.mask = 1]
    ELSE [e EXCEPT !.mask = (e.mask * 2) % 256]

EncEmit(e) == EncFlush(EncUnit(EncClamp(e)))

\* text_buf[s] = c; if s < 17 { text_buf[s + 4096] = c }; s and r advance
EncStore(e, c) ==
    [e EXCEPT !.data_pos = e.data_pos + 1,
              !.text_buf = PutIf(e.s < 17, Put(e.text_buf, e.s, c), e.s + 4096, c),
              !.s = (e.s + 1) % 4096,
              !.r = (e.r + 1) % 4096]

\* `while i_local < last_match_length && data_pos < size_data`
RECURSIVE EncRead(_, _, _, _)
EncRead(input, e, i_local, last) ==
    IF i_local < last /\ e.data_pos < Len(input)
    THEN EncRead(input,
                 InsertAtR(EncStore(delete_node(e.s, e), At(input, e.data_pos))),
                 i_local + 1, last)
    ELSE [e |-> e, i_local |-> i_local]

\* s and r advance, len -= 1
EncShift(e) ==
    [e EXCEPT !.s = (e.s + 1) % 4096, !.r = (e.r + 1) % 4096, !.len = e.len - 1]

InsertIfLeft(e) == IF e.len > 0 THEN InsertAtR(e) ELSE e

\* `while i_local < last_match_length` after the end of the input
RECURSIVE EncSlide(_, _, _)
EncSlide(e, i_local, last) ==
    IF i_local < last
    THEN EncSlide(InsertIfLeft(EncShift(delete_node(e.s, e))), i_local + 1, last)
    ELSE e

EncSlideFrom(rd, last) == EncSlide(rd.e, rd.i_local, last)

EncAdvance(input, e) ==
    EncSlideFrom(EncRead(input, e, 0, e.match_length), e.match_length)

\* One iteration of lzs_compress's main `loop`.
EncStep(input, e) == EncAdvance(input, EncEmit(e))

\* `if code_buf_ptr > 1 { result.extend_from_slice(..) }` and the return value.
EncFinish(e) == IF e.code_buf_ptr > 1 THEN e.result \o CodeBytes(e) ELSE e.result

\* lzs_decompress_raw: the state at the top of its `loop`.
DecInit(data) ==
    [data |-> data, pos |-> 0, flag_byte |-> 0,
     text_buf |-> [i \in 0..4095 |-> 0], cur_buff |-> 4078, out |-> <<>>]

\* out[cur_result] = c (or push), text_buf[cur_buff] = c, both cursors advanced.
DecPut(d, c) ==
    [d EXCEPT !.out = Append(d.out, c),
              !.text_buf = Put(d.text_buf, d.cur_buff, c),
              !.cur_buff = (d.cur_buff + 1) % 4096]

CopyCountShort(length) == (length % 16) + 2

\* The number of bytes a back-reference with second byte `length` copies:
\* i runs from offset to end_index = (length & 0x0F) + 2 + offset inclusive.
CopyCount(length) == (length % 16) + 2 + 1

\* offset = data[pos] | ((length & 0xF0) << 4)
RefOffset(b0, length) == b0 + ((length \div 16) * 256)

\* The copy reading every byte from the ring as it was before the reference.
RECURSIVE DecCopyFrom(_, _, _, _)
DecCopyFrom(ring, d, i, end_index) ==
    IF i <= end_index
    THEN DecCopyFrom(ring, DecPut(d, ring[i % 4096]), i + 1, end_index)
    ELSE d

DecCopySnapshot(d, i, end_index) == DecCopyFrom(d.text_buf, d, i, end_index)

\* `while i <= end_index`: each byte is written to the ring before the next
\* one is read.
RECURSIVE DecCopy(_, _, _)
DecCopy(d, i, end_index) ==
    IF i <= end_index
    THEN DecCopy(DecPut(d, d.text_buf[i % 4096]), i + 1, end_index)
    ELSE d

\* `((flag_byte >> 1) & 0x100) == 0`: a fresh flag byte is due.
FlagDue(flag_byte) == ((flag_byte \div 2) \div 256) % 2 = 0

\* The flag byte loaded (data[pos] | 0xFF00) or shifted.
DecFlag(d) ==
    IF FlagDue(d.flag_byte)
    THEN [d EXCEPT !.flag_byte = At(d.data, d.pos) + 65280, !.pos = d.pos + 1]
    ELSE [d EXCEPT !.flag_byte = d.flag_byte \div 2]

DecLiteral(d) == DecPut([d EXCEPT !.pos = d.pos + 1], At(d.data, d.pos))

DecReference(d, b0, length) ==
    DecCopy([d EXCEPT !.pos = d.pos + 2], RefOffset(b0, length),
            CopyCount(length) - 1 + RefOffset(b0, length))

\* The rest of an iteration once the flag bit is in place.
DecUnit(d) ==
    IF d.pos >= Len(d.data) THEN [d |-> d, ret |-> TRUE]
    ELSE IF d.flag_byte % 2 # 0 THEN [d |-> DecLiteral(d), ret |-> FALSE]
    ELSE IF d.pos + 1 >= Len(d.data) THEN [d |-> d, ret |-> TRUE]
    ELSE [d |-> DecReference(d, At(d.data, d.pos), At(d.data, d.pos + 1)),
          ret |-> FALSE]

\* One iteration of lzs_decompress_raw's `loop`; ret says it returned Ok(out).
DecStep(d) ==
    IF FlagDue(d.flag_byte) /\ d.pos >= Len(d.data)
    THEN [d |-> d, ret |-> TRUE]
    ELSE DecUnit(DecFlag(d))

LE32(b0, b1, b2, b3) == b0 + 256 * b1 + 65536 * b2 + 16777216 * b3

\* min(u32::from_le_bytes([b0, b1, b2, b3]) as usize, cap) for cap < 2^31.
\* A value with b3 >= 128 is at least 2^31, above every cap, and is not
\* computed: TLC's integers are 32-bit signed.
MinLE32(b0, b1, b2, b3, cap) ==
    IF b3 >= 128 THEN cap ELSE Min(LE32(b0, b1, b2, b3), cap)

\* Never taking the header-prefixed attempt.
PayloadLenSkipped(data) == 0

\* lzs_decompress: the length of the payload the header-prefixed
\* interpretation decodes, 0 when that attempt is skipped.
PayloadLen(data) ==
    IF Len(data) >= 4
    THEN MinLE32(data[1], data[2], data[3], data[4], Len(data) - 4)
    ELSE 0

HeaderPayload(data) == Slice(data, 4, 4 + PayloadLen(data))

(***************************************************************************)
(* The codec run: lzs_compress(lz_input), then lzs_decompress_raw and      *)
(* lzs_decompress on what it returned.  A step is a function entry or one  *)
(* iteration of a main loop.                                               *)
(***************************************************************************)
MaxInputLen == 5
LongExtra == 30

LzAlphabet == {0, 1, 255}

\* All sequences over S of length n, and of length at most n.
RECURSIVE SeqsOfLen(_, _)
SeqsOfLen(S, n) ==
    IF n = 0 THEN {<<>>} ELSE {Append(q, x) : q \in SeqsOfLen(S, n - 1), x \in S}

SeqsUpTo(S, n) == UNION {SeqsOfLen(S, k) : k \in 0..n}

\* Inputs longer than the sliding window: period 3 (every match overlaps the
\* bytes it produces), period 251 (distant matches), and one with few repeats
\* (mostly literals, deep trees); in all three the ring wraps.
LongInputs ==
    { [k \in 1..(N + LongExtra) |-> (k % 3) + 1],
      [k \in 1..(N + LongExtra) |-> (k * k + 7 * k) % 251],
      [k \in 1..(N + LongExtra) |-> ((k % 256) * (k % 251) + (k \div 13)) % 256] }

\* Inputs made of MaxBlocks blocks that share their first three bytes and
\* differ in the fourth: the history then holds several equally long matches
\* of fewer than F bytes for a later block.
MaxBlocks == 3

Block(x) == <<1, 255, 1, x>>

RECURSIVE BlockSeqs(_)
BlockSeqs(n) ==
    IF n = 0 THEN {<<>>} ELSE {q \o Block(x) : q \in BlockSeqs(n - 1), x \in LzAlphabet}

BlockInputs == BlockSeqs(MaxBlocks)

LzInputs == SeqsUpTo(LzAlphabet, MaxInputLen) \cup LongInputs \cup BlockInputs

Idle == [idle |-> TRUE]

\* The parts of the model that take no part in a run keep these values.
LzIdle ==
    /\ lz_input = <<>>
    /\ lz_pc = "idle"
    /\ enc = Idle
    /\ dec = Idle
    /\ lz_comp = <<>>
    /\ lz_raw = Err
    /\ lz_arg = <<>>
    /\ lz_two = Err
    /\ lz_first = <<>>

WkIdle ==
    /\ w_buf = <<>>
    /\ w_end = 0
    /\ w_i = 0
    /\ w_reads = {}
    /\ w_ret = {}

KaIdle ==
    /\ k_raw = <<>>
    /\ k_pc = "idle"
    /\ k_arch = Err
    /\ k_out = Err

LgIdle ==
    /\ g_raw = <<>>
    /\ g_repl = <<>>
    /\ g_pc = "idle"
    /\ g_arch = Err
    /\ g_out = Err

TxIdle ==
    /\ t_buf = <<>>
    /\ t_call = Idle
    /\ t_ret = "none"

SrIdle ==
    /\ s_buf = <<>>
    /\ s_ret = Idle

FcIdle ==
    /\ c_prog = <<>>
    /\ c_src = <<>>
    /\ c_ret = Idle

RwIdle ==
    /\ r_buf = <<>>
    /\ r_orig = <<>>
    /\ r_ret = "idle"

KrIdle ==
    /\ kr_raw = <<>>
    /\ kr_set = [randomize_equipment |-> FALSE, randomize_weapon_stats |-> FALSE, keep_weapon_appearance |-> FALSE]
    /\ kr_pc = "idle"
    /\ kr_arch = Err
    /\ kr_k = 0
    /\ kr_out = Err
    /\ kr_call = [fn |-> "none", len |-> 0, ok |-> TRUE]
    /\ kr_size = <<>>
    /\ kr_fail = {}

FlIdle ==
    /\ fl_k = 0
    /\ fl_log = <<>>

DgIdle ==
    /\ d_buf = <<>>
    /\ d_orig = <<>>
    /\ d_first = <<>>
    /\ d_args = Idle
    /\ d_ret = [kind |-> "pending", id |-> 0]
    /\ d_calls = 0

LzInit ==
    /\ FlIdle
    /\ KrIdle
    /\ RwIdle
    /\ DgIdle
    /\ SrIdle
    /\ FcIdle
    /\ WkIdle
    /\ KaIdle
    /\ LgIdle
    /\ TxIdle
    /\ lz_input \in LzInputs
    /\ lz_pc = "call_compress"
    /\ enc = Idle
    /\ dec = Idle
    /\ lz_comp = <<>>
    /\ lz_raw = Err
    /\ lz_arg = <<>>
    /\ lz_two = Err
    /\ lz_first = <<>>

\* lzs_compress, entry: `if input.is_empty() { return Ok(Vec::new()) }`
CompressCall ==
    /\ lz_pc = "call_compress"
    /\ IF lz_input = <<>>
       THEN /\ lz_comp' = <<>>
            /\ lz_pc' = "call_raw"
            /\ enc' = Idle
       ELSE /\ enc' = EncInit(lz_input)
            /\ lz_pc' = "compress"
            /\ lz_comp' = lz_comp
    /\ UNCHANGED <<lz_input, dec, lz_raw, lz_arg, lz_two, lz_first>>
    /\ UNCHANGED lzRest

\* One iteration of the main loop; `if len <= 0 { break; }` ends the call.
CompressStep ==
    /\ lz_pc = "compress"
    /\ \E e \in {EncStep(lz_input, enc)} :
          IF e.len <= 0
          THEN /\ lz_comp' = EncFinish(e)
               /\ enc' = Idle
               /\ lz_pc' = "call_raw"
          ELSE /\ enc' = e
               /\ UNCHANGED <<lz_comp, lz_pc>>
    /\ UNCHANGED <<lz_input, dec, lz_raw, lz_arg, lz_two, lz_first>>
    /\ UNCHANGED lzRest

\* lzs_decompress_raw(lz_comp), entry
RawCall ==
    /\ lz_pc = "call_raw"
    /\ IF lz_comp = <<>>
       THEN /\ lz_raw' = Err
            /\ lz_arg' = lz_comp
            /\ lz_pc' = "call_decompress"
            /\ dec' = Idle
       ELSE /\ dec' = DecInit(lz_comp)
            /\ lz_pc' = "raw"
            /\ UNCHANGED <<lz_raw, lz_arg>>
    /\ UNCHANGED <<lz_input, enc, lz_comp, lz_two, lz_first>>
    /\ UNCHANGED lzRest

RawStep ==
    /\ lz_pc = "raw"
    /\ \E st \in {DecStep(dec)} :
          IF st.ret
          THEN /\ lz_raw' = Ok(st.d.out)
               /\ lz_arg' = lz_comp
               /\ lz_pc' = "call_decompress"
               /\ dec' = Idle
          ELSE /\ dec' = st.d
               /\ UNCHANGED <<lz_raw, lz_arg, lz_pc>>
    /\ UNCHANGED <<lz_input, enc, lz_comp, lz_two, lz_first>>
    /\ UNCHANGED lzRest

\* lzs_decompress(lz_arg), entry: the empty check and the choice of attempt
DecompressCall ==
    /\ lz_pc = "call_decompress"
    /\ IF lz_arg = <<>>
       THEN /\ lz_two' = Err
            /\ lz_pc' = "done"
            /\ dec' = Idle
       ELSE IF PayloadLen(lz_arg) > 0
       THEN /\ dec' = DecInit(HeaderPayload(lz_arg))
            /\ lz_pc' = "header"
            /\ lz_two' = lz_two
       ELSE /\ dec' = DecInit(lz_arg)
            /\ lz_pc' = "fallback"
            /\ lz_two' = lz_two
    /\ UNCHANGED <<lz_input, enc, lz_comp, lz_raw, lz_arg, lz_first>>
    /\ UNCHANGED lzRest

\* The header-prefixed attempt: `if !buf.is_empty() { return Ok(buf) }`
HeaderStep ==
    /\ lz_pc = "header"
    /\ \E st \in {DecStep(dec)} :
          IF st.ret
          THEN /\ lz_first' = st.d.out
               /\ IF st.d.out # <<>>
                  THEN /\ lz_two' = Ok(st.d.out)
                       /\ lz_pc' = "done"
                       /\ dec' = Idle
                  ELSE /\ dec' = DecInit(lz_arg)
                       /\ lz_pc' = "fallback"
                       /\ lz_two' = lz_two
          ELSE /\ dec' = st.d
               /\ UNCHANGED <<lz_two, lz_pc, lz_first>>
    /\ UNCHANGED <<lz_input, enc, lz_comp, lz_raw, lz_arg>>
    /\ UNCHANGED lzRest

\* The fallback: the whole input as a headerless payload
FallbackStep ==
    /\ lz_pc = "fallback"
    /\ \E st \in {DecStep(dec)} :
          IF st.ret
          THEN /\ lz_two' = IF st.d.out = <<>> THEN Err ELSE Ok(st.d.out)
               /\ lz_pc' = "done"
               /\ dec' = Idle
          ELSE /\ dec' = st.d
               /\ UNCHANGED <<lz_two, lz_pc>>
    /\ UNCHANGED <<lz_input, enc, lz_comp, lz_raw, lz_arg, lz_first>>
    /\ UNCHANGED lzRest

LzNext ==
    \/ CompressCall
    \/ CompressStep
    \/ RawCall
    \/ RawStep
    \/ DecompressCall
    \/ HeaderStep
    \/ FallbackStep

SpecLzs == LzInit /\ [][LzNext]_vars

(***************************************************************************)
(* lzs_decompress on any stream, not only on what lzs_compress returns:    *)
(* streams with and without a length prefix, with flag bytes of literals   *)
(* and of references, and streams that decode to nothing.                  *)
(***************************************************************************)
MaxStreamLen == 6
StreamAlphabet == {0, 1, 2, 255}

\* Every stream over the alphabet shorter than max_len, and every stream up
\* to max_len over the alphabet without 1.
DecodeStreams(max_len) ==
    SeqsUpTo(StreamAlphabet, max_len - 1) \cup SeqsUpTo(StreamAlphabet \ {1}, max_len)

DecodeInit ==
    /\ FlIdle
    /\ KrIdle
    /\ RwIdle
    /\ DgIdle
    /\ SrIdle
    /\ FcIdle
    /\ WkIdle
    /\ KaIdle
    /\ LgIdle
    /\ TxIdle
    /\ lz_input = <<>>
    /\ lz_pc = "call_decompress"
    /\ enc = Idle
    /\ dec = Idle
    /\ lz_comp = <<>>
    /\ lz_raw = Err
    /\ lz_arg \in DecodeStreams(MaxStreamLen)
    /\ lz_two = Err
    /\ lz_first = <<>>

DecodeNext ==
    \/ DecompressCall
    \/ HeaderStep
    \/ FallbackStep

SpecDecode == DecodeInit /\ [][DecodeNext]_vars

(***************************************************************************)
(* The field-script opcode walker.                                         *)
(***************************************************************************)

\* OPCODE_LENGTH[op] is OPCODE_LENGTH[op + 1] here.
OPCODE_LENGTH ==
    << 1, 3, 3, 3, 3, 3, 3, 2, 2, 15, 6, 6, 1, 1, 2, 2,
       2, 3, 2, 3, 6, 7, 8, 9, 8, 9, 10, 3, 6, 1, 1, 1,
       11, 2, 5, 3, 3, 9, 2, 2, 3, 1, 2, 2, 5, 7, 2, 10,
       4, 4, 4, 2, 2, 4, 5, 8, 6, 6, 6, 4, 1, 1, 1, 1,
       3, 5, 6, 2, 1, 5, 1, 5, 7, 4, 2, 2, 1, 5, 1, 5,
       10, 6, 4, 2, 2, 3, 7, 7, 5, 5, 5, 7, 8, 10, 8, 1,
       10, 2, 5, 6, 6, 1, 9, 1, 9, 2, 7, 9, 1, 4, 3, 6,
       4, 2, 3, 4, 4, 8, 4, 5, 4, 5, 3, 3, 3, 3, 2, 3,
       4, 5, 4, 4, 4, 4, 5, 4, 5, 4, 5, 4, 5, 4, 5, 4,
       5, 4, 5, 4, 5, 3, 3, 3, 3, 3, 4, 5, 6, 7, 7, 11,
       2, 2, 3, 3, 2, 11, 9, 9, 6, 6, 2, 4, 1, 6, 3, 3,
       5, 5, 4, 3, 6, 6, 2, 4, 5, 4, 3, 5, 5, 4, 1, 2,
       11, 8, 15, 12, 1, 3, 3, 2, 2, 2, 4, 3, 3, 3, 2, 2,
       13, 2, 2, 16, 10, 10, 4, 4, 3, 1, 15, 2, 4, 1, 1, 11,
       4, 4, 3, 3, 3, 5, 5, 5, 7, 10, 10, 5, 5, 8, 8, 11,
       2, 5, 14, 2, 2, 2, 2, 4, 2, 1, 3, 2, 2, 8, 3, 1,
       0 >>

OP_UNUSED1C == 28
OP_KAWAI == 40

\* `let mut size = if op < OPCODE_LENGTH.len() { OPCODE_LENGTH[op] } else { 1 }`
TableSize(op) == IF op < Len(OPCODE_LENGTH) THEN OPCODE_LENGTH[op + 1] ELSE 1

\* The sub-size of 0x1C added without its cap of 128.
VariableSizeUncapped(buf, i, end, op) ==
    IF op = OP_UNUSED1C
    THEN IF i + 6 <= end
         THEN TableSize(op) + At(buf, i + 5)
         ELSE TableSize(op)
    ELSE IF op = OP_KAWAI
    THEN IF i + 2 <= end /\ At(buf, i + 1) > 0
         THEN Min(At(buf, i + 1), end - i)
         ELSE TableSize(op)
    ELSE TableSize(op)

\* The `match op` of opcode_size_pc: the size before the final clamp.
VariableSize(buf, i, end, op) ==
    IF op = OP_UNUSED1C
    THEN IF i + 6 <= end
         THEN TableSize(op) + Min(At(buf, i + 5), 128)
         ELSE TableSize(op)
    ELSE IF op = OP_KAWAI
    THEN IF i + 2 <= end /\ At(buf, i + 1) > 0
         THEN Min(At(buf, i + 1), end - i)
         ELSE TableSize(op)
    ELSE TableSize(op)

Unclamped(size, i, end) == size

\* `if size == 0 || i + size > end { return min(1, end - i) }; size`
Clamped(size, i, end) ==
    IF size = 0 \/ i + size > end THEN Min(1, end - i) ELSE size

\* Returning the size as computed, without the final clamp.
opcode_size_unclamped(buf, i, end) ==
    IF i >= end THEN 0
    ELSE VariableSize(buf, i, end, At(buf, i))

opcode_size_pc(buf, i, end) ==
    IF i >= end THEN 0
    ELSE Clamped(VariableSize(buf, i, end, At(buf, i)), i, end)

\* The buffer indices opcode_size_pc(buf, i, end) indexes.
OpcodeReads(buf, i, end) ==
    IF i >= end THEN {}
    ELSE {i}
         \cup (IF At(buf, i) = OP_UNUSED1C /\ i + 6 <= end THEN {i + 5} ELSE {})
         \cup (IF At(buf, i) = OP_KAWAI /\ i + 2 <= end THEN {i + 1} ELSE {})

MaxWalkLen == 7
WalkAlphabet == {1, OP_UNUSED1C, OP_KAWAI}
Byte == 0..255
ProbeLen == 17

\* Every buffer over the walk alphabet up to MaxWalkLen, and one probe buffer
\* per opcode byte: the opcode followed by ones.
WalkBuffers ==
    SeqsUpTo(WalkAlphabet, MaxWalkLen)
    \cup {[k \in 1..ProbeLen |-> IF k = 1 THEN op ELSE 1] : op \in Byte}

\* A walk: any buffer, any region end inside it, any offset inside the region.
WkInit ==
    /\ FlIdle
    /\ KrIdle
    /\ RwIdle
    /\ DgIdle
    /\ SrIdle
    /\ FcIdle
    /\ LzIdle
    /\ KaIdle
    /\ LgIdle
    /\ TxIdle
    /\ w_buf \in WalkBuffers
    /\ w_end \in 0..Len(w_buf)
    /\ w_i \in 0..w_end
    /\ w_reads = {}
    /\ w_ret = {}

\* `while i < end { let sz = opcode_size_pc(buf, i, end); ...; i += sz; }`
WalkStep ==
    /\ w_i < w_end
    /\ w_i' = w_i + opcode_size_pc(w_buf, w_i, w_end)
    /\ w_reads' = OpcodeReads(w_buf, w_i, w_end)
    /\ w_ret' = {opcode_size_pc(w_buf, w_i, w_end)}
    /\ UNCHANGED <<w_buf, w_end>>
    /\ UNCHANGED wkRest

WkNext == WalkStep

SpecWalk == WkInit /\ [][WkNext]_vars /\ WF_vars(WalkStep)

(***************************************************************************)
(* One call of opcode_size_pc at any offset of a buffer, inside the region *)
(* or past its end.                                                        *)
(***************************************************************************)
LongProbeLen == 140

\* The bytes tried at offset + 1 and offset + 5 of the two variable-length
\* opcodes.
PayloadBytes == {0, 1, 2, 3, 16, 127, 128, 129, 255}

\* op, then p at offsets 1 and 5, ones elsewhere.
Probe(op, p, len) == [k \in 1..len |-> IF k = 1 THEN op ELSE IF k \in {2, 6} THEN p ELSE 1]

\* One buffer per opcode byte; the two variable-length opcodes with every
\* payload byte, short and longer than the longest instruction.
SizeBuffers(probe_len, long_len) ==
    {Probe(op, 1, probe_len) : op \in Byte}
    \cup {Probe(op, p, probe_len) : op \in {OP_UNUSED1C, OP_KAWAI}, p \in PayloadBytes}
    \cup {Probe(op, p, long_len) : op \in {OP_UNUSED1C, OP_KAWAI}, p \in {127, 128, 129, 255}}
    \cup {<<>>}

SzInit ==
    /\ FlIdle
    /\ KrIdle
    /\ RwIdle
    /\ DgIdle
    /\ SrIdle
    /\ FcIdle
    /\ LzIdle
    /\ KaIdle
    /\ LgIdle
    /\ TxIdle
    /\ w_buf \in SizeBuffers(ProbeLen, LongProbeLen)
    /\ w_end \in 0..Len(w_buf)
    /\ w_i \in ({0, 1, Len(w_buf)} \cup {w_end - 1, w_end, w_end + 1}) \cap (0..Len(w_buf))
    /\ w_reads = {}
    /\ w_ret = {}

\* `opcode_size_pc(buf, i, end)`
SizeCall ==
    /\ w_ret = {}
    /\ w_ret' = {opcode_size_pc(w_buf, w_i, w_end)}
    /\ w_reads' = OpcodeReads(w_buf, w_i, w_end)
    /\ UNCHANGED <<w_buf, w_end, w_i>>
    /\ UNCHANGED wkRest

SzNext == SizeCall

SpecSize == SzInit /\ [][SzNext]_vars

(***************************************************************************)
(* The section-indexed container (KERNEL.BIN).                             *)
(***************************************************************************)

U16LE(b0, b1) == b0 + 256 * b1

\* v.to_le_bytes() for a u16
U16Bytes(v) == << v % 256, (v \div 256) % 256 >>

\* prev_dir_id before the first section.
NoDir == -1

\* `if prev_dir_id.map_or(true, |d| d != dir_id) { index = 0; }`
\* Never starting over: the index counts the sections of the whole file.
SectionIndexRunning(prev, dir_id, index) == index

SectionIndex(prev, dir_id, index) ==
    IF prev = NoDir \/ prev # dir_id THEN 0 ELSE index

KernelFile(raw, offset, cmp_size, index) ==
    [dir_id |-> U16LE(At(raw, offset + 4), At(raw, offset + 5)),
     index |-> index,
     raw_size |-> U16LE(At(raw, offset + 2), At(raw, offset + 3)),
     cmp_data |-> Slice(raw, offset + 6, offset + 6 + cmp_size)]

\* parse_kernel_archive's `while offset + 6 <= raw.len()` and what follows it.
RECURSIVE ParseSections(_, _, _, _, _)
PushSection(raw, offset, cmp_size, files, f) ==
    ParseSections(raw, offset + 6 + cmp_size, (f.index + 1) % 65536, f.dir_id,
                  Append(files, f))

ParseSection(raw, offset, index, prev, files, cmp_size, dir_id) ==
    IF offset + 6 + cmp_size > Len(raw)
    THEN Err
    ELSE PushSection(raw, offset, cmp_size, files,
                     KernelFile(raw, offset, cmp_size,
                                SectionIndex(prev, dir_id, index)))

ParseSections(raw, offset, index, prev, files) ==
    IF offset + 6 <= Len(raw)
    THEN ParseSection(raw, offset, index, prev, files,
                      U16LE(At(raw, offset), At(raw, offset + 1)),
                      U16LE(At(raw, offset + 4), At(raw, offset + 5)))
    ELSE Ok([files |-> files, trailer |-> Slice(raw, offset, Len(raw))])

parse_kernel_archive(raw) == ParseSections(raw, 0, 0, NoDir, <<>>)

SectionBytesSizesSwapped(f) ==
    U16Bytes(f.raw_size) \o U16Bytes(Len(f.cmp_data)) \o U16Bytes(f.dir_id)
        \o f.cmp_data

\* What build_kernel_archive appends for one file.
SectionBytes(f) ==
    U16Bytes(Len(f.cmp_data)) \o U16Bytes(f.raw_size) \o U16Bytes(f.dir_id)
        \o f.cmp_data

\* build_kernel_archive's `for f in &archive.files`; u16::try_from fails on a
\* section longer than 65535 bytes.
RECURSIVE BuildSections(_, _, _)
BuildSections(files, k, out) ==
    IF k > Len(files) THEN Ok(out)
    ELSE IF Len(files[k].cmp_data) > 65535 THEN Err
    ELSE BuildSections(files, k + 1, out \o SectionBytes(files[k]))

AppendTrailer(res, trailer) == IF res.ok THEN Ok(res.val \o trailer) ELSE res

build_kernel_archive(archive) ==
    AppendTrailer(BuildSections(archive.files, 1, <<>>), archive.trailer)

MaxKernelLen == 8
MaxKernelBits == 14
KernelAlphabet == {0, 1, 255}

\* Container images: every buffer over the alphabet up to MaxKernelLen and
\* every buffer over {0, 1} up to MaxKernelBits (room for two sections and a
\* trailer).
KernelInputs(max_len, max_bits) ==
    SeqsUpTo(KernelAlphabet, max_len) \cup SeqsUpTo({0, 1}, max_bits)

\* Container images made of up to max_sections sections with directory ids
\* from 0..2, a section with an odd id carrying one payload byte.
MaxSections == 4

RECURSIVE SectionRun(_)
SectionRun(dirs) ==
    IF dirs = <<>> THEN <<>>
    ELSE <<Head(dirs) % 2, 0, 0, 0, Head(dirs), 0>>
             \o (IF Head(dirs) % 2 = 1 THEN <<7>> ELSE <<>>) \o SectionRun(Tail(dirs))

KernelRuns(max_sections) == {SectionRun(dirs) : dirs \in SeqsUpTo(0..2, max_sections)}

KaInit ==
    /\ FlIdle
    /\ KrIdle
    /\ RwIdle
    /\ DgIdle
    /\ SrIdle
    /\ FcIdle
    /\ LzIdle
    /\ WkIdle
    /\ LgIdle
    /\ TxIdle
    /\ k_raw \in KernelInputs(MaxKernelLen, MaxKernelBits) \cup KernelRuns(MaxSections)
    /\ k_pc = "parse"
    /\ k_arch = Err
    /\ k_out = Err

KernelParse ==
    /\ k_pc = "parse"
    /\ k_arch' = parse_kernel_archive(k_raw)
    /\ k_pc' = IF k_arch'.ok THEN "build" ELSE "rejected"
    /\ UNCHANGED <<k_raw, k_out>>
    /\ UNCHANGED kaRest

KernelBuild ==
    /\ k_pc = "build"
    /\ k_out' = build_kernel_archive(k_arch.val)
    /\ k_pc' = "done"
    /\ UNCHANGED <<k_raw, k_arch>>
    /\ UNCHANGED kaRest

KaNext == KernelParse \/ KernelBuild

SpecKernel == KaInit /\ [][KaNext]_vars

(***************************************************************************)
(* The named container (flevel.lgp).                                       *)
(***************************************************************************)

\* v.to_le_bytes() for a u32
U32Bytes(v) ==
    << v % 256, (v \div 256) % 256, (v \div 65536) % 256, (v \div 16777216) % 256 >>

\* u32::from_le_bytes(raw[at..at + 4])
U32At(raw, at) == LE32(At(raw, at), At(raw, at + 1), At(raw, at + 2), At(raw, at + 3))

TOC_START == 16
ENTRY_SIZE == 27
NAME_LEN == 20
ENTRY_HEADER == 24

SetMin(S) == CHOOSE x \in S : \A y \in S : x <= y
SetMax(S) == CHOOSE x \in S : \A y \in S : x >= y

\* `&name_bytes[..nul_pos]`
UpToNul(b) ==
    IF \E k \in 1..Len(b) : b[k] = 0
    THEN SubSeq(b, 1, SetMin({k \in 1..Len(b) : b[k] = 0}) - 1)
    ELSE b

\* String::from_utf8_lossy on bytes none of which starts a multi-byte
\* sequence: ASCII stays, anything else becomes U+FFFD.
Utf8Lossy(b) == [k \in 1..Len(b) |-> IF b[k] < 128 THEN b[k] ELSE 65533]

IsWhitespace(c) == c \in {9, 10, 11, 12, 13, 32}

\* str::trim_end
TrimEnd(str) ==
    IF \E k \in 1..Len(str) : ~IsWhitespace(str[k])
    THEN SubSeq(str, 1, SetMax({k \in 1..Len(str) : ~IsWhitespace(str[k])}))
    ELSE <<>>

\* str::to_ascii_lowercase
ToAsciiLowercase(str) ==
    [k \in 1..Len(str) |-> IF str[k] >= 65 /\ str[k] <= 90 THEN str[k] + 32 ELSE str[k]]

\* The file_count field; a count above raw.len() fails the TOC length test
\* exactly as raw.len() does and is not distinguished from it.
FileCount(raw) == MinLE32(At(raw, 12), At(raw, 13), At(raw, 14), At(raw, 15), Len(raw))

LgpEntry(raw, entry_start) ==
    [name |-> TrimEnd(Utf8Lossy(UpToNul(Slice(raw, entry_start, entry_start + NAME_LEN)))),
     offset |-> U32At(raw, entry_start + NAME_LEN)]

parse_lgp_archive(raw) ==
    IF Len(raw) < 16 THEN Err
    ELSE IF TOC_START + FileCount(raw) * ENTRY_SIZE > Len(raw) THEN Err
    ELSE Ok([creator |-> Slice(raw, 0, 12),
             entries |-> [i \in 1..FileCount(raw) |->
                            LgpEntry(raw, TOC_START + (i - 1) * ENTRY_SIZE)]])

\* The size field of the entry header at off; a size above raw.len() fails
\* the end-of-file test exactly as raw.len() + 1 does.
BodyLen(raw, off) ==
    MinLE32(At(raw, off + 20), At(raw, off + 21), At(raw, off + 22), At(raw, off + 23),
            Len(raw) + 1)

\* The first loop's rejections for one entry.
EntryInFile(raw, off) ==
    /\ off + ENTRY_HEADER <= Len(raw)
    /\ off + ENTRY_HEADER + BodyLen(raw, off) <= Len(raw)

EntryEnd(raw, off) == off + ENTRY_HEADER + BodyLen(raw, off)

DataStart(entries) == SetMin({entries[i].offset : i \in 1..Len(entries)})

OldDataEnd(raw, entries) ==
    SetMax({EntryEnd(raw, entries[i].offset) : i \in 1..Len(entries)})

OriginalBody(raw, off) ==
    Slice(raw, off + ENTRY_HEADER, off + ENTRY_HEADER + BodyLen(raw, off))

\* `let key = entry.name.to_ascii_lowercase();`
KeyOf(name) == ToAsciiLowercase(name)

\* `if let Some(rep) = replacements.get(&key) { rep } else { original_body }`
ChosenBody(raw, entry, replacements) ==
    IF KeyOf(entry.name) \in DOMAIN replacements
    THEN replacements[KeyOf(entry.name)]
    ELSE OriginalBody(raw, entry.offset)

\* header name, new size, body
EmittedEntry(raw, off, body) ==
    Slice(raw, off, off + NAME_LEN) \o U32Bytes(Len(body)) \o body

\* The second loop: out and new_offsets after entries k.. have been emitted.
\* `cursor as u32` is cursor itself: no buffer here reaches 2^32 bytes.
RECURSIVE EmitEntries(_, _, _, _, _)
EmitEntries(raw, entries, replacements, k, st) ==
    IF k > Len(entries) THEN st
    ELSE EmitEntries(raw, entries, replacements, k + 1,
                     [out |-> st.out \o EmittedEntry(raw, entries[k].offset,
                                            ChosenBody(raw, entries[k], replacements)),
                      new_offsets |-> Append(st.new_offsets, Len(st.out))])

\* `out[pos..pos + 4].copy_from_slice(bytes)`
CopyInto(out, pos, bytes) ==
    [k \in 1..Len(out) |->
        IF k - 1 >= pos /\ k - 1 < pos + Len(bytes) THEN bytes[k - pos] ELSE out[k]]

\* The TOC offset fields rewritten in order.
RECURSIVE WriteOffsets(_, _, _)
WriteOffsets(out, new_offsets, i) ==
    IF i > Len(new_offsets) THEN Ok(out)
    ELSE IF TOC_START + (i - 1) * ENTRY_SIZE + 20 + 4 > Len(out) THEN Err
    ELSE WriteOffsets(CopyInto(out, TOC_START + (i - 1) * ENTRY_SIZE + 20,
                               U32Bytes(new_offsets[i])),
                      new_offsets, i + 1)

WithTail(st, tail) == [st EXCEPT !.out = st.out \o tail]

FinishToc(st, file_count) ==
    IF TOC_START + file_count * ENTRY_SIZE > Len(st.out) THEN Err
    ELSE WriteOffsets(st.out, st.new_offsets, 1)

build_lgp_archive(archive, raw, replacements) ==
    IF Len(archive.entries) = 0 THEN Ok(raw)
    ELSE IF \E i \in 1..Len(archive.entries) : ~EntryInFile(raw, archive.entries[i].offset)
    THEN Err
    ELSE FinishToc(
             WithTail(EmitEntries(raw, archive.entries, replacements, 1,
                                  [out |-> Slice(raw, 0, DataStart(archive.entries)),
                                   new_offsets |-> <<>>]),
                      Slice(raw, OldDataEnd(raw, archive.entries), Len(raw))),
             Len(archive.entries))

\* A name field: the name's bytes padded with NULs to 20 bytes.
NameField(name) == [k \in 1..NAME_LEN |-> IF k <= Len(name) THEN name[k] ELSE 0]

TocRecord(name, off) == NameField(name) \o U32Bytes(off) \o <<0, 0, 0>>

FileBlock(name, body) == NameField(name) \o U32Bytes(Len(body)) \o body

CREATOR == <<0, 0, 83, 81, 85, 65, 82, 69, 83, 79, 70, 84>>

\* TOC names: "a", "B", "b " and a name with a byte that is not UTF-8.
TocNames == {<<97>>, <<66>>, <<98, 32>>, <<97, 255>>}

\* Data areas: one file; two files back to back; two files with a stray byte
\* between them.
DataAreas ==
    { FileBlock(<<97>>, <<7>>),
      FileBlock(<<97>>, <<7>>) \o FileBlock(<<66>>, <<8, 9>>),
      FileBlock(<<97>>, <<7>>) \o <<238>> \o FileBlock(<<120>>, <<>>) }

\* Bytes between the TOC and the data area (lookup table), and after it.
PreGaps == {<<>>, <<170, 187>>}
Tails == {<<>>, <<70, 73>>}

MaxEntries == 2

\* The offsets a TOC record may hold in an image whose data area starts at
\* base: the two file headers of the data areas, one byte past a header, the
\* container header, the TOC itself, and two offsets at the end of the file.
TocOffsets(base, total) ==
    {0, TOC_START, base, base + 1, base + 25, base + 26, total - 23, total}

LgpImage(names, offs, pre, data, tail) ==
    CREATOR \o U32Bytes(Len(names))
        \o (IF Len(names) >= 1 THEN TocRecord(names[1], offs[1]) ELSE <<>>)
        \o (IF Len(names) >= 2 THEN TocRecord(names[2], offs[2]) ELSE <<>>)
        \o (IF Len(names) >= 3 THEN TocRecord(names[3], offs[3]) ELSE <<>>)
        \o pre \o data \o tail

ImagesOf(n, pre, data, tail) ==
    { LgpImage(names, offs, pre, data, tail) :
        names \in [1..n -> TocNames],
        offs \in [1..n -> TocOffsets(TOC_START + n * ENTRY_SIZE + Len(pre),
                                     TOC_START + n * ENTRY_SIZE + Len(pre) + Len(data)
                                         + Len(tail))] }

LgpInputs(max_entries) ==
    UNION { ImagesOf(n, pre, data, tail) :
              n \in 0..max_entries, pre \in PreGaps, data \in DataAreas, tail \in Tails }
    \cup {<<>>, CREATOR, CREATOR \o U32Bytes(1), CREATOR \o U32Bytes(16777216 * 127)}

\* Replacement maps: keyed by lowercase names, by a name no lookup produces
\* ("B"), or empty.
ReplacementMaps ==
    { <<>>,
      (<<97>> :> <<1, 2, 3>>),
      (<<98>> :> <<>>),
      (<<97>> :> <<>>) @@ (<<98>> :> <<4, 5, 6, 7>>),
      (<<66>> :> <<9>>) }

LgInit ==
    /\ FlIdle
    /\ KrIdle
    /\ RwIdle
    /\ DgIdle
    /\ SrIdle
    /\ FcIdle
    /\ LzIdle
    /\ WkIdle
    /\ KaIdle
    /\ TxIdle
    /\ g_raw \in LgpInputs(MaxEntries)
    /\ g_repl \in ReplacementMaps
    /\ g_pc = "parse"
    /\ g_arch = Err
    /\ g_out = Err

LgpParse ==
    /\ g_pc = "parse"
    /\ g_arch' = parse_lgp_archive(g_raw)
    /\ g_pc' = IF g_arch'.ok THEN "build" ELSE "rejected"
    /\ UNCHANGED <<g_raw, g_repl, g_out>>
    /\ UNCHANGED lgRest

LgpBuild ==
    /\ g_pc = "build"
    /\ g_out' = build_lgp_archive(g_arch.val, g_raw, g_repl)
    /\ g_pc' = "done"
    /\ UNCHANGED <<g_raw, g_repl, g_arch>>
    /\ UNCHANGED lgRest

LgNext == LgpParse \/ LgpBuild

SpecLgp == LgInit /\ [][LgNext]_vars

(***************************************************************************)
(* The in-place text patches.  Strings are sequences of character codes.   *)
(***************************************************************************)

None == [some |-> FALSE, val |-> <<>>]
Some(v) == [some |-> TRUE, val |-> v]

QUESTION == 63

\* One character of encode_ff7_ascii: a non-ASCII character counts as '?',
\* a printable one loses 0x20, anything else becomes '?' - 0x20.
EncodeChar(ch) ==
    IF ch < 128 /\ ch >= 32 /\ ch <= 126 THEN ch - 32 ELSE QUESTION - 32

encode_ff7_ascii(str) == [k \in 1..Len(str) |-> EncodeChar(str[k])]

\* The rows of the name tables the model draws its items from.
lookup_item_name(item_id) ==
    CASE item_id = 0 -> <<80, 111, 116, 105, 111, 110>>  \* Potion
      [] item_id = 7 -> <<80, 104, 111, 101, 110, 105, 120, 32, 68, 111, 119, 110>>  \* Phoenix Down
      [] item_id = 58 -> <<73, 110, 107>>  \* Ink
      [] OTHER -> <<63>>

lookup_weapon_name(index) ==
    CASE index = 0 -> <<66, 117, 115, 116, 101, 114, 32, 83, 119, 111, 114, 100>>  \* Buster Sword
      [] OTHER -> <<63>>

lookup_armor_name(index) ==
    CASE index = 3 -> <<77, 121, 116, 104, 114, 105, 108, 32, 65, 114, 109, 108, 101, 116>>  \* Mythril Armlet
      [] OTHER -> <<63>>

lookup_accessory_name(index) ==
    CASE index = 18 -> <<82, 105, 98, 98, 111, 110>>  \* Ribbon
      [] OTHER -> <<63>>

lookup_materia_name(id) ==
    CASE id = 23 -> <<65, 108, 108>>  \* All
      [] id = 89 -> <<75, 110, 105, 103, 104, 116, 115, 32, 111, 102, 32, 116, 104, 101, 32, 82, 111, 117, 110, 100>>  \* Knights of the Round
      [] OTHER -> <<63>>

lookup_inventory_name(item_id) ==
    IF item_id <= 104 THEN lookup_item_name(item_id)
    ELSE IF item_id >= 128 /\ item_id < 256 THEN lookup_weapon_name(item_id - 128)
    ELSE IF item_id >= 256 /\ item_id < 288 THEN lookup_armor_name(item_id - 256)
    ELSE IF item_id >= 288 /\ item_id < 320 THEN lookup_accessory_name(item_id - 288)
    ELSE <<63>>

PickupName(item_id, is_materia) ==
    IF is_materia THEN lookup_materia_name(item_id % 256)
    ELSE lookup_inventory_name(item_id)

\* format!("Found \"{}\"!", name), format!("Found {}!", name), name
NameVariants(name) ==
    << <<70, 111, 117, 110, 100, 32, 34>> \o name \o <<34, 33>>,
       <<70, 111, 117, 110, 100, 32>> \o name \o <<33>>,
       name >>

item_candidates ==
    << <<70, 111, 117, 110, 100, 32, 34, 82, 97, 110, 100, 111, 109, 105, 122, 101, 100, 32, 73, 116, 101, 109, 33, 34>>,  \* Found \"Randomized Item!\"
       <<82, 97, 110, 100, 111, 109, 105, 122, 101, 100, 32, 73, 116, 101, 109, 33>>,  \* Randomized Item!
       <<82, 110, 100, 32, 73, 116, 101, 109, 33>>,  \* Rnd Item!
       <<73, 116, 101, 109, 33>> >>  \* Item!

weapon_candidates ==
    << <<70, 111, 117, 110, 100, 32, 34, 82, 97, 110, 100, 111, 109, 105, 122, 101, 100, 32, 87, 101, 97, 112, 111, 110, 33, 34>>,  \* Found \"Randomized Weapon!\"
       <<82, 97, 110, 100, 111, 109, 105, 122, 101, 100, 32, 87, 101, 97, 112, 111, 110, 33>>,  \* Randomized Weapon!
       <<82, 110, 100, 32, 87, 101, 97, 112, 111, 110, 33>>,  \* Rnd Weapon!
       <<87, 101, 97, 112, 111, 110, 33>> >>  \* Weapon!

armor_candidates ==
    << <<70, 111, 117, 110, 100, 32, 34, 82, 97, 110, 100, 111, 109, 105, 122, 101, 100, 32, 65, 114, 109, 111, 114, 33, 34>>,  \* Found \"Randomized Armor!\"
       <<82, 97, 110, 100, 111, 109, 105, 122, 101, 100, 32, 65, 114, 109, 111, 114, 33>>,  \* Randomized Armor!
       <<82, 110, 100, 32, 65, 114, 109, 111, 114, 33>>,  \* Rnd Armor!
       <<65, 114, 109, 111, 114, 33>> >>  \* Armor!

accessory_candidates ==
    << <<70, 111, 117, 110, 100, 32, 34, 82, 97, 110, 100, 111, 109, 105, 122, 101, 100, 32, 65, 99, 99, 101, 115, 115, 111, 114, 121, 33, 34>>,  \* Found \"Randomized Accessory!\"
       <<82, 97, 110, 100, 111, 109, 105, 122, 101, 100, 32, 65, 99, 99, 101, 115, 115, 111, 114, 121, 33>>,  \* Randomized Accessory!
       <<82, 110, 100, 32, 65, 99, 99, 101, 115, 115, 111, 114, 121, 33>>,  \* Rnd Accessory!
       <<65, 99, 99, 101, 115, 115, 111, 114, 121, 33>> >>  \* Accessory!

GenericCandidates(item_id) ==
    IF item_id <= 104 THEN item_candidates
    ELSE IF item_id >= 128 /\ item_id < 256 THEN weapon_candidates
    ELSE IF item_id >= 256 /\ item_id < 288 THEN armor_candidates
    ELSE IF item_id >= 288 /\ item_id < 320 THEN accessory_candidates
    ELSE item_candidates

FitsWithoutSentinel(bytes, capacity) == Len(bytes) <= capacity

\* `if bytes.len() + 1 <= capacity`
Fits(bytes, capacity) == Len(bytes) + 1 <= capacity

\* Taking the last rendering that fits instead of the first.
RECURSIVE LastFitting(_, _, _)
LastFitting(candidates, k, capacity) ==
    IF k > Len(candidates) THEN None
    ELSE IF LastFitting(candidates, k + 1, capacity) # None
    THEN LastFitting(candidates, k + 1, capacity)
    ELSE IF Fits(encode_ff7_ascii(candidates[k]), capacity)
    THEN Some(encode_ff7_ascii(candidates[k]))
    ELSE None

\* `for s in candidates { ...; return Some(bytes) }` and the None after it.
RECURSIVE FirstFitting(_, _, _)
FirstFitting(candidates, k, capacity) ==
    IF k > Len(candidates) THEN None
    ELSE IF Fits(encode_ff7_ascii(candidates[k]), capacity)
    THEN Some(encode_ff7_ascii(candidates[k]))
    ELSE FirstFitting(candidates, k + 1, capacity)

\* The renderings build_pickup_message_bytes tries, in its order.
PickupCandidates(item_id, is_materia) ==
    NameVariants(PickupName(item_id, is_materia)) \o GenericCandidates(item_id)

build_pickup_message_bytes(qty, item_id, is_materia, capacity) ==
    FirstFitting(PickupCandidates(item_id, is_materia), 1, capacity)

build_key_message_bytes(key_name, capacity) ==
    FirstFitting(NameVariants(key_name), 1, capacity)

\* usize::saturating_sub
SatSub(a, b) == IF a >= b THEN a - b ELSE 0

\* `let next_start = if id + 1 < text_count { ... } else { buf.len() }`
NextStart(buf, texts_base, text_count, positions, id) ==
    IF id + 1 < text_count
    THEN texts_base + Min(positions[id + 2], SatSub(Len(buf), texts_base))
    ELSE Len(buf)

SlotEndIgnoringSentinel(buf, end, next_start) ==
    IF end < next_start THEN next_start ELSE end

\* `while end < next_start { if buf[end] == 0xFF { end += 1; break; } end += 1; }`
RECURSIVE SlotEnd(_, _, _)
SlotEnd(buf, end, next_start) ==
    IF end < next_start
    THEN IF At(buf, end) = 255 THEN end + 1 ELSE SlotEnd(buf, end + 1, next_start)
    ELSE end

\* The message copied to start, then 0xFF up to end; start + msg_len < end
\* <= buf.len() whenever this is reached.
WriteSlot(buf, start, end, msg) ==
    [k \in 1..Len(buf) |->
        IF k - 1 >= start /\ k - 1 < start + Len(msg) THEN msg[k - start]
        ELSE IF k - 1 = start + Len(msg) THEN 255
        ELSE IF k - 1 > start + Len(msg) /\ k - 1 < end THEN 255
        ELSE buf[k]]

PatchResult(buf, ret) == [buf |-> buf, ret |-> ret]

\* The tail of both patch functions once the message is chosen.
WriteOrFail(buf, start, end, msg) ==
    IF msg.some THEN PatchResult(WriteSlot(buf, start, end, msg.val), TRUE)
    ELSE PatchResult(buf, FALSE)

PickupInSlot(buf, start, end, item_id, is_materia, qty) ==
    IF end <= start THEN PatchResult(buf, FALSE)
    ELSE WriteOrFail(buf, start, end,
                     build_pickup_message_bytes(qty, item_id, is_materia, end - start))

KeyInSlot(buf, start, end, key_name) ==
    IF end <= start THEN PatchResult(buf, FALSE)
    ELSE WriteOrFail(buf, start, end, build_key_message_bytes(key_name, end - start))

\* positions[id] is positions[id + 1] here.
patch_pickup_text_in_place(buf, texts_base, text_count, positions, text_id, qty, item_id, is_materia) ==
    IF text_id >= text_count THEN PatchResult(buf, FALSE)
    ELSE IF texts_base + positions[text_id + 1] >= Len(buf) THEN PatchResult(buf, FALSE)
    ELSE PickupInSlot(buf, texts_base + positions[text_id + 1],
                      SlotEnd(buf, texts_base + positions[text_id + 1],
                              NextStart(buf, texts_base, text_count, positions, text_id)),
                      item_id, is_materia, qty)

patch_key_text_in_place(buf, texts_base, text_count, positions, text_id, key_name) ==
    IF text_id >= text_count THEN PatchResult(buf, FALSE)
    ELSE IF texts_base + positions[text_id + 1] >= Len(buf) THEN PatchResult(buf, FALSE)
    ELSE KeyInSlot(buf, texts_base + positions[text_id + 1],
                   SlotEnd(buf, texts_base + positions[text_id + 1],
                           NextStart(buf, texts_base, text_count, positions, text_id)),
                   key_name)

MaxCap == 32
MaxTexts == 2
PreLens == {0, 2}
PostBytes == {<<>>, <<5, 255, 6>>}
RelOffsets == {0, 2, 4, 40}

\* A buffer with pre filler bytes, then a string of c bytes ending in its
\* 0xFF sentinel, then post.
TextBuffer(pre, c, post) ==
    [k \in 1..(pre + c) |-> IF k = pre + c THEN 255 ELSE (k % 5) + 1] \o post

TextBuffers ==
    {TextBuffer(pre, c, post) : pre \in PreLens, c \in 1..MaxCap, post \in PostBytes}

\* Potion, Phoenix Down, an id outside every table, Buster Sword, Mythril
\* Armlet, Ribbon; the materia All, Knights of the Round, and All under an id
\* of the armour range.
PickupItems ==
    { <<0, FALSE>>, <<7, FALSE>>, <<112, FALSE>>, <<128, FALSE>>, <<259, FALSE>>,
      <<306, FALSE>>, <<23, TRUE>>, <<89, TRUE>>, <<279, TRUE>> }

\* "", "Key", "Keystone", "Ké"
KeyNames == {<<>>, <<75, 101, 121>>, <<75, 101, 121, 115, 116, 111, 110, 101>>, <<75, 233>>}

PatchCalls ==
    {[fn |-> "pickup", item_id |-> it[1], is_materia |-> it[2], key_name |-> <<>>] :
        it \in PickupItems}
    \cup {[fn |-> "key", item_id |-> 0, is_materia |-> FALSE, key_name |-> name] :
            name \in KeyNames}

\* A call: any buffer of the family, any layout (texts_base, text_count and
\* one position per text) and any text id.
TxInit ==
    /\ FlIdle
    /\ KrIdle
    /\ RwIdle
    /\ DgIdle
    /\ SrIdle
    /\ FcIdle
    /\ LzIdle
    /\ WkIdle
    /\ KaIdle
    /\ LgIdle
    /\ t_buf \in TextBuffers
    /\ t_ret = "none"
    /\ \E texts_base \in {0, 1}, text_count \in 0..MaxTexts, text_id \in 0..MaxTexts,
          call \in PatchCalls :
          \E positions \in [1..text_count -> RelOffsets] :
             t_call = [fn |-> call.fn, orig |-> t_buf, texts_base |-> texts_base,
                       text_count |-> text_count, positions |-> positions,
                       text_id |-> text_id, qty |-> 1, item_id |-> call.item_id,
                       is_materia |-> call.is_materia, key_name |-> call.key_name]

Returned(res) ==
    /\ t_buf' = res.buf
    /\ t_ret' = IF res.ret THEN "true" ELSE "false"

PatchPickup ==
    /\ t_ret = "none"
    /\ t_call.fn = "pickup"
    /\ Returned(patch_pickup_text_in_place(t_buf, t_call.texts_base, t_call.text_count,
                                           t_call.positions, t_call.text_id, t_call.qty,
                                           t_call.item_id, t_call.is_materia))
    /\ UNCHANGED t_call
    /\ UNCHANGED txRest

PatchKey ==
    /\ t_ret = "none"
    /\ t_call.fn = "key"
    /\ Returned(patch_key_text_in_place(t_buf, t_call.texts_base, t_call.text_count,
                                        t_call.positions, t_call.text_id,
                                        t_call.key_name))
    /\ UNCHANGED t_call
    /\ UNCHANGED txRest

TxNext == PatchPickup \/ PatchKey

SpecPatch == TxInit /\ [][TxNext]_vars

(***************************************************************************)
(* The text-table editor that grows the table.                             *)
(***************************************************************************)

\* u16::from_le_bytes(buf[at..at + 2])
U16At(buf, at) == U16LE(At(buf, at), At(buf, at + 1))

HEADER_LEN == 42
SECTION_COUNT == 9

\* The positions vector of get_pc_field_text_layout: text_count u16 values
\* from texts_base + 2, None when one of them lies past the buffer.
LayoutPositions(buf, texts_base, text_count) ==
    IF \E i \in 0..(text_count - 1) : texts_base + 2 + i * 2 + 2 > Len(buf)
    THEN None
    ELSE Some([texts_base |-> texts_base, text_count |-> text_count,
               positions |-> [i \in 1..text_count |->
                                 U16At(buf, texts_base + 2 + (i - 1) * 2)]])

\* `let text_count = (first_pos / 2).saturating_sub(1) as u16;`
TextCountOf(first_pos) == SatSub(first_pos \div 2, 1) % 65536

LayoutAt(buf, texts_base) ==
    IF texts_base + 4 > Len(buf) THEN None
    ELSE IF U16At(buf, texts_base + 2) < 4 THEN None
    ELSE LayoutPositions(buf, texts_base, TextCountOf(U16At(buf, texts_base + 2)))

LayoutInSection(buf, sec1_start, sec1_end) ==
    IF sec1_end - sec1_start < 6 THEN None
    ELSE IF U16At(buf, sec1_start + 4) = 0
            \/ U16At(buf, sec1_start + 4) + 4 > sec1_end - sec1_start
    THEN None
    ELSE LayoutAt(buf, sec1_start + U16At(buf, sec1_start + 4))

LayoutOfSections(buf, s0, s1) ==
    IF s0 + 4 > Len(buf) \/ s1 <= s0 + 4 \/ s1 > Len(buf) THEN None
    ELSE LayoutInSection(buf, s0 + 4, s1)

get_pc_field_text_layout(buf) ==
    IF Len(buf) < HEADER_LEN THEN None
    ELSE IF U32At(buf, 2) # SECTION_COUNT THEN None
    ELSE LayoutOfSections(buf, U32At(buf, 6), U32At(buf, 10))

\* The decimal digits of n, as format!("{}", n) prints them.
RECURSIVE Decimal(_)
Decimal(n) == IF n < 10 THEN <<48 + n>> ELSE Decimal(n \div 10) \o <<48 + (n % 10)>>

\* format!("Found x{} \"{}\"!", qty, name) or format!("Found \"{}\"!", name)
DialogText(qty, name) ==
    IF qty > 1
    THEN <<70, 111, 117, 110, 100, 32, 120>> \o Decimal(qty) \o <<32, 34>> \o name \o <<34, 33>>
    ELSE <<70, 111, 117, 110, 100, 32, 34>> \o name \o <<34, 33>>

\* msg_bytes: the encoded text and its 0xFF sentinel.
DialogMessage(qty, item_id, is_materia) ==
    Append(encode_ff7_ascii(DialogText(qty, PickupName(item_id, is_materia))), 255)

\* u32::from_le_bytes(buf[at..at + 4]) where only values up to cap are told
\* apart.
U32Capped(buf, at, cap) ==
    MinLE32(At(buf, at), At(buf, at + 1), At(buf, at + 2), At(buf, at + 3), cap)

\* The non-zero AKAO relative offsets of the table at akao_offsets_off; an
\* offset past the buffer is past sec1_end like any other and is read as
\* buf.len() + 1.
AkaoRels(buf, akao_offsets_off, n_akao) ==
    {U32Capped(buf, akao_offsets_off + j * 4, Len(buf) + 1) : j \in 0..(n_akao - 1)}
        \ {0}

\* `if cand > texts_base && cand <= sec1_end { text_region_end = cand; }`
RegionEndFor(cand, texts_base, sec1_end) ==
    IF cand > texts_base /\ cand <= sec1_end THEN cand ELSE sec1_end

TextRegionEnd(buf, sec1_start, sec1_end, texts_base, akao_offsets_off, n_akao) ==
    IF AkaoRels(buf, akao_offsets_off, n_akao) = {} THEN sec1_end
    ELSE RegionEndFor(sec1_start + SetMin(AkaoRels(buf, akao_offsets_off, n_akao)),
                      texts_base, sec1_end)

\* The bytes kept for one string: up to and including its 0xFF, or [0xFF]
\* when the string's span is empty.
StringAt(buf, start, next_start) ==
    IF start >= next_start THEN <<255>>
    ELSE Slice(buf, start, SlotEnd(buf, start, next_start))

\* `let next_start = if idx + 1 < total { ... } else { text_region_end.min(buf.len()) }`
StringBound(buf, texts_base, positions, idx, text_region_end) ==
    IF idx + 1 < Len(positions)
    THEN texts_base + Min(positions[idx + 2], SatSub(Len(buf), texts_base))
    ELSE Min(text_region_end, Len(buf))

\* The `for idx in 0..total` loop that collects the existing strings; None
\* when a string starts at or past the end of the text region.
RECURSIVE CollectStrings(_, _, _, _, _, _)
CollectStrings(buf, texts_base, positions, text_region_end, idx, strings) ==
    IF idx >= Len(positions) THEN Some(strings)
    ELSE IF texts_base + positions[idx + 1] >= text_region_end THEN None
    ELSE CollectStrings(buf, texts_base, positions, text_region_end, idx + 1,
             Append(strings,
                    StringAt(buf, texts_base + positions[idx + 1],
                             StringBound(buf, texts_base, positions, idx,
                                         text_region_end))))

\* ptrs: cur_off as u16 for each string, cur_off starting at 2 + 2 * count.
RECURSIVE Pointers(_, _, _)
Pointers(strings, k, cur_off) ==
    IF k > Len(strings) THEN <<>>
    ELSE U16Bytes(cur_off) \o Pointers(strings, k + 1, cur_off + Len(strings[k]))

RECURSIVE Concat(_, _)
Concat(strings, k) ==
    IF k > Len(strings) THEN <<>> ELSE strings[k] \o Concat(strings, k + 1)

\* new_block: the count, the pointers, the strings.
NewBlock(strings) ==
    U16Bytes(Len(strings)) \o Pointers(strings, 1, 2 + Len(strings) * 2)
        \o Concat(strings, 1)

\* buf.splice(a..b, block)
Splice(buf, a, b, block) == SubSeq(buf, 1, a) \o block \o SubSeq(buf, b + 1, Len(buf))

\* (rel_old + delta) as u32, on the four bytes of rel_old: the low three
\* bytes take the sum, the carry goes into the fourth.
AddU32Bytes(b, delta) ==
    << (b[1] + 256 * b[2] + 65536 * b[3] + delta) % 256,
       ((b[1] + 256 * b[2] + 65536 * b[3] + delta) \div 256) % 256,
       ((b[1] + 256 * b[2] + 65536 * b[3] + delta) \div 65536) % 256,
       (b[4] + ((b[1] + 256 * b[2] + 65536 * b[3] + delta) \div 16777216)) % 256 >>

\* `rel_old >= boundary_rel` for a u32 read as isize and a bound below 2^31.
AtOrBeyond(b, bound) == b[4] >= 128 \/ LE32(b[1], b[2], b[3], b[4]) >= bound

\* What the relocation has made of the buffer; panicked when an index was
\* out of range.
Intact(buf) == [buf |-> buf, panicked |-> FALSE]
Panicked(buf) == [buf |-> buf, panicked |-> TRUE]

\* The u32 at off rewritten to its value + delta.
AddAt(buf, off, delta) == CopyInto(buf, off, AddU32Bytes(Slice(buf, off, off + 4), delta))


\* `if rel_old >= boundary_rel { buf[off..off + 4] = rel_old + delta }`
ShiftIfBeyond(buf, off, bound, delta) ==
    IF AtOrBeyond(Slice(buf, off, off + 4), bound) THEN AddAt(buf, off, delta) ELSE buf

\* `for j in 0..n_akao` after the splice.
RECURSIVE ShiftAkao(_, _, _, _, _, _)
ShiftAkao(buf, akao_offsets_off, n_akao, boundary_rel, delta, j) ==
    IF j >= n_akao THEN Intact(buf)
    ELSE IF akao_offsets_off + j * 4 + 4 > Len(buf) THEN Panicked(buf)
    ELSE ShiftAkao(ShiftIfBeyond(buf, akao_offsets_off + j * 4, boundary_rel, delta),
                   akao_offsets_off, n_akao, boundary_rel, delta, j + 1)

\* Section0's declared size += delta
ShiftSize0(st, s0, delta) ==
    IF st.panicked THEN st
    ELSE IF s0 + 4 > Len(st.buf) THEN Panicked(st.buf)
    ELSE Intact(AddAt(st.buf, s0, delta))

\* `for idx in 1..section_count`: every section position += delta
RECURSIVE ShiftSections(_, _, _, _)
ShiftSections(st, section_count, delta, idx) ==
    IF st.panicked \/ idx >= section_count THEN st
    ELSE IF 6 + idx * 4 + 4 > Len(st.buf) THEN Panicked(st.buf)
    ELSE ShiftSections(Intact(AddAt(st.buf, 6 + idx * 4, delta)), section_count, delta,
                       idx + 1)

\* The `if delta != 0 { ... }` block.
Relocate(buf, h, akao_offsets_off, boundary_rel, delta) ==
    IF delta = 0 THEN Intact(buf)
    ELSE ShiftSections(
             ShiftSize0(ShiftAkao(buf, akao_offsets_off, h.n_akao, boundary_rel, delta, 0),
                        h.s0, delta),
             h.section_count, delta, 1)

\* The outcome of a call: the buffer and None, Some(id), or a panic.
AddResult(buf, kind, id) == [buf |-> buf, kind |-> kind, id |-> id]

Relocated(st, new_id) ==
    IF st.panicked THEN AddResult(st.buf, "panic", 0)
    ELSE AddResult(st.buf, "some", new_id)

SpliceBlock(buf, h, texts_base, akao_offsets_off, text_region_end, block, new_id) ==
    Relocated(Relocate(Splice(buf, texts_base, text_region_end, block), h,
                       akao_offsets_off,
                       (texts_base - h.sec1_start) + (text_region_end - texts_base),
                       Len(block) - (text_region_end - texts_base)),
              new_id)

AddToStrings(buf, h, texts_base, akao_offsets_off, text_region_end, strings, msg) ==
    IF ~strings.some THEN AddResult(buf, "none", 0)
    ELSE SpliceBlock(buf, h, texts_base, akao_offsets_off, text_region_end,
                     NewBlock(Append(strings.val, msg)), Len(strings.val) % 256)

AddInRegion(buf, h, texts_base, akao_offsets_off, positions, text_region_end, msg) ==
    IF text_region_end <= texts_base THEN AddResult(buf, "none", 0)
    ELSE AddToStrings(buf, h, texts_base, akao_offsets_off, text_region_end,
                      CollectStrings(buf, texts_base, positions, text_region_end, 0, <<>>),
                      msg)

AddWithLayout(buf, h, texts_base, akao_offsets_off, layout, msg) ==
    IF ~layout.some THEN AddResult(buf, "none", 0)
    ELSE IF layout.val.texts_base # texts_base THEN AddResult(buf, "none", 0)
    ELSE AddInRegion(buf, h, texts_base, akao_offsets_off, layout.val.positions,
                     TextRegionEnd(buf, h.sec1_start, h.sec1_end, texts_base,
                                   akao_offsets_off, h.n_akao),
                     msg)

AddWithHeader(buf, h, msg) ==
    IF h.pos_texts = 0 THEN AddResult(buf, "none", 0)
    ELSE IF h.sec1_start + h.pos_texts + 4 > Len(buf) THEN AddResult(buf, "none", 0)
    ELSE IF h.sec1_start + 32 + h.n_entities * 8 + h.n_akao * 4 > Len(buf)
    THEN AddResult(buf, "none", 0)
    ELSE AddWithLayout(buf, h, h.sec1_start + h.pos_texts,
                       h.sec1_start + 32 + h.n_entities * 8,
                       get_pc_field_text_layout(buf), msg)

\* The Section1 header fields the function reads.
SectionHeader(buf, section_count, s0, sec1_end) ==
    [section_count |-> section_count, s0 |-> s0, sec1_start |-> s0 + 4,
     sec1_end |-> sec1_end,
     n_entities |-> At(buf, s0 + 4 + 2),
     n_akao |-> U16At(buf, s0 + 4 + 6),
     pos_texts |-> U16At(buf, s0 + 4 + 4)]

AddWithSections(buf, section_count, s0, sec1_end, msg) ==
    IF s0 + 4 > Len(buf) THEN AddResult(buf, "none", 0)
    ELSE IF s0 + 4 >= sec1_end \/ sec1_end > Len(buf) THEN AddResult(buf, "none", 0)
    ELSE IF s0 + 4 + 32 > Len(buf) THEN AddResult(buf, "none", 0)
    ELSE AddWithHeader(buf, SectionHeader(buf, section_count, s0, sec1_end), msg)

add_dialog_entry_for_pickup(buf, qty, item_id, is_materia) ==
    IF Len(buf) < HEADER_LEN THEN AddResult(buf, "none", 0)
    ELSE IF U32At(buf, 2) = 0 \/ U32At(buf, 2) > SECTION_COUNT
    THEN AddResult(buf, "none", 0)
    ELSE AddWithSections(buf, U32At(buf, 2), U32At(buf, 6),
                         IF U32At(buf, 2) > 1 THEN U32At(buf, 10) ELSE Len(buf),
                         DialogMessage(qty, item_id, is_materia))

\* The 42-byte header: two bytes, the section count, nine section positions.
FieldHeader(positions) ==
    <<0, 0>> \o U32Bytes(SECTION_COUNT)
        \o U32Bytes(positions[1]) \o U32Bytes(positions[2]) \o U32Bytes(positions[3])
        \o U32Bytes(positions[4]) \o U32Bytes(positions[5]) \o U32Bytes(positions[6])
        \o U32Bytes(positions[7]) \o U32Bytes(positions[8]) \o U32Bytes(positions[9])

\* The 32-byte Section1 header: n_entities at +2, pos_texts at +4, n_akao at
\* +6, the rest filler.
Section1Header(n_entities, pos_texts, n_akao) ==
    <<2, 5, n_entities, 0>> \o U16Bytes(pos_texts) \o U16Bytes(n_akao)
        \o [k \in 1..24 |-> 64 + k]

\* A text table whose strings occupy the given spans (a span may carry bytes
\* after its 0xFF sentinel).
RECURSIVE SpanPointers(_, _, _)
SpanPointers(spans, k, cur_off) ==
    IF k > Len(spans) THEN <<>>
    ELSE U16Bytes(cur_off) \o SpanPointers(spans, k + 1, cur_off + Len(spans[k]))

TextTable(spans) ==
    U16Bytes(Len(spans)) \o SpanPointers(spans, 1, 2 + 2 * Len(spans))
        \o Concat(spans, 1)

HiddenBytes(n) == [k \in 1..n |-> k]

\* One string; two strings; a string with two hidden bytes and another; an
\* empty string; a string followed by 13 and by 20 hidden bytes.
TextSpans ==
    { << <<33, 255>> >>,
      << <<33, 255>>, <<34, 35, 255>> >>,
      << <<33, 255, 7, 7>>, <<34, 255>> >>,
      << <<255>> >>,
      << <<33, 255>> \o HiddenBytes(13) >>,
      << <<33, 255>> \o HiddenBytes(20) >> }

\* What an AKAO offset may point at: nothing (0), the scripts before the text
\* table, the last byte of the text table, the first byte after the text
\* table, two bytes further.
AkaoKinds == {"unused", "scripts", "inside", "end", "later"}

AkaoRel(kind, scripts_rel, end_rel) ==
    CASE kind = "unused" -> 0
      [] kind = "scripts" -> scripts_rel
      [] kind = "inside" -> end_rel - 1
      [] kind = "end" -> end_rel
      [] kind = "later" -> end_rel + 2

RECURSIVE AkaoTable(_, _, _, _)
AkaoTable(kinds, k, scripts_rel, end_rel) ==
    IF k > Len(kinds) THEN <<>>
    ELSE U32Bytes(AkaoRel(kinds[k], scripts_rel, end_rel))
             \o AkaoTable(kinds, k + 1, scripts_rel, end_rel)

SCRIPTS == <<0, 0>>
AKAO_BLOCKS == <<9, 9, 9, 9>>

\* The offset of the text table inside Section1 when the tables precede it.
PosTexts(n_entities, n_akao) == 32 + 8 * n_entities + 4 * n_akao + Len(SCRIPTS)

\* Section1 laid out as the game lays it out: header, entity names, AKAO
\* offsets, scripts, text table, AKAO blocks.
Section1(n_entities, kinds, spans) ==
    Section1Header(n_entities, PosTexts(n_entities, Len(kinds)), Len(kinds))
        \o [k \in 1..(8 * n_entities) |-> 48 + k]
        \o AkaoTable(kinds, 1, PosTexts(n_entities, Len(kinds)) - 1,
                     PosTexts(n_entities, Len(kinds)) + Len(TextTable(spans)))
        \o SCRIPTS
        \o TextTable(spans)
        \o (IF Len(kinds) > 0 THEN AKAO_BLOCKS ELSE <<>>)

\* Section1 with pos_texts pointing at the AKAO offset table: the header
\* announces n_akao offsets, the text table starts where they would be.
Section1Overlapping(n_entities, n_akao, spans) ==
    Section1Header(n_entities, 32 + 8 * n_entities, n_akao)
        \o [k \in 1..(8 * n_entities) |-> 48 + k]
        \o TextTable(spans)

\* A field buffer around a Section1: the header, Section1's size, Section1,
\* and eight further sections of a size field each.
FieldBuffer(section1) ==
    FieldHeader([k \in 1..9 |->
                    IF k = 1 THEN HEADER_LEN
                    ELSE HEADER_LEN + 4 + Len(section1) + 4 * (k - 2)])
        \o U32Bytes(Len(section1)) \o section1
        \o [k \in 1..32 |-> 0]

MaxEntities == 1
MaxAkao == 2
MaxCalls == 2

FieldBuffers(max_entities, max_akao) ==
    { FieldBuffer(Section1(n_entities, kinds, spans)) :
        n_entities \in 0..max_entities,
        kinds \in UNION {[1..n -> AkaoKinds] : n \in 0..max_akao},
        spans \in TextSpans }
    \cup { FieldBuffer(Section1Overlapping(n_entities, n_akao, spans)) :
             n_entities \in 0..max_entities, n_akao \in 1..max_akao, spans \in TextSpans }
    \cup { <<>>, [k \in 1..HEADER_LEN |-> 0] }

\* Potion, the materia All, an id outside every table; one or two of them.
DialogItems == {<<0, FALSE>>, <<23, TRUE>>, <<112, FALSE>>}
Quantities == {1, 2}

DgInit ==
    /\ FlIdle
    /\ KrIdle
    /\ RwIdle
    /\ LzIdle
    /\ WkIdle
    /\ KaIdle
    /\ LgIdle
    /\ TxIdle
    /\ d_buf \in FieldBuffers(MaxEntities, MaxAkao)
    /\ d_orig = d_buf
    /\ d_first = d_buf
    /\ SrIdle
    /\ FcIdle
    /\ d_args = Idle
    /\ d_ret = [kind |-> "pending", id |-> 0]
    /\ d_calls = 0

DialogReturned(res) ==
    /\ d_buf' = res.buf
    /\ d_ret' = [kind |-> res.kind, id |-> res.id]

\* A call on the buffer as the previous call left it; no call follows a panic.
AddDialog ==
    /\ d_calls < MaxCalls
    /\ d_ret.kind # "panic"
    /\ \E item \in DialogItems, qty \in Quantities :
          /\ DialogReturned(add_dialog_entry_for_pickup(d_buf, qty, item[1], item[2]))
          /\ d_args' = [qty |-> qty, item_id |-> item[1], is_materia |-> item[2]]
    /\ d_orig' = d_buf
    /\ d_calls' = d_calls + 1
    /\ UNCHANGED d_first
    /\ UNCHANGED dgRest

DgNext == AddDialog

SpecDialog == DgInit /\ [][DgNext]_vars

LzRawReturned == lz_pc \in {"call_decompress", "header", "fallback", "done"}

\* C1: for every non-empty buffer b, lzs_decompress(lzs_compress(b)) returns
\* Ok(b): once the two-phase lzs_decompress has returned on the compressor's
\* headerless output, its result is Ok of the input.
C1_TwoPhaseRoundTrip ==
    (lz_pc = "done" /\ lz_input # <<>>) => lz_two = Ok(lz_input)

\* C2: for every non-empty buffer b, lzs_decompress_raw(lzs_compress(b)) is
\* Ok(b): once lzs_decompress_raw has returned on the output of lzs_compress,
\* it returned Ok of exactly the input (short inputs, inputs longer than the
\* window and inputs with self-overlapping matches included).
C2_RawInvertsCompress ==
    (LzRawReturned /\ lz_input # <<>>) => lz_raw = Ok(lz_input)

\* C2 witness: the raw decoder has returned an input longer than the window.
C2_Witness ==
    /\ LzRawReturned
    /\ Len(lz_input) > N
    /\ lz_raw = Ok(lz_input)
    /\ Len(lz_comp) < Len(lz_input)

\* C7: for any buffer, any region_end <= len(buffer) and any starting offset
\* inside the region, repeatedly advancing the offset by opcode_size_pc reaches
\* exactly region_end after finitely many steps (the offset never passes the
\* region end and eventually equals it), and no step reads a byte outside
\* [0, len(buffer)).
C7_WalkerTerminates ==
    /\ [](w_i <= w_end /\ w_reads \subseteq 0..(Len(w_buf) - 1))
    /\ <>(w_i = w_end)

\* C7 witness: a walk reached the region end, short of the buffer's end, with
\* a step over an opcode whose payload length was read at offset +5.
C7_Witness ==
    /\ w_i = w_end
    /\ w_end < Len(w_buf)
    /\ \E k \in w_reads : k + 5 \in w_reads /\ k + 7 = w_i

\* C4: for every buffer raw that parse_kernel_archive accepts,
\* build_kernel_archive(parse_kernel_archive(raw)) with no section modified
\* returns exactly raw: every section's sizes, dir_id and payload in the
\* original order, followed by the unparsed trailing bytes.
C4_KernelIdentity == k_pc = "done" => k_out = Ok(k_raw)

\* C4 witness: an archive of two sections, one with a payload, and a trailer
\* was rebuilt.
C4_Witness ==
    /\ k_pc = "done"
    /\ Len(k_arch.val.files) = 2
    /\ k_arch.val.files[1].cmp_data # <<>>
    /\ k_arch.val.trailer # <<>>
    /\ k_out = Ok(k_raw)

\* C3: for every buffer raw that parse_lgp_archive accepts,
\* build_lgp_archive(parse_lgp_archive(raw), raw, {}) with an empty replacement
\* map returns exactly raw, whatever the order, spacing or sharing of the
\* entries' offsets in the original TOC.
C3_LgpIdentity ==
    (g_pc = "done" /\ DOMAIN g_repl = {}) => g_out = Ok(g_raw)

\* The offset field of TOC record i of a built archive.
OutOffset(out, i) == U32At(out, TOC_START + (i - 1) * ENTRY_SIZE + 20)

\* Entry i of the built archive is the original header name, the length of
\* the chosen body and the chosen body, at the position TOC record i names.
EntryLaidOut(out, raw, entry, body, at) ==
    /\ at + ENTRY_HEADER + Len(body) <= Len(out)
    /\ Slice(out, at, at + ENTRY_HEADER + Len(body))
           = Slice(raw, entry.offset, entry.offset + NAME_LEN)
                 \o U32Bytes(Len(body)) \o body

LayoutHolds(out, raw, entries, replacements) ==
    /\ OutOffset(out, 1) = SetMin({entries[i].offset : i \in 1..Len(entries)})
    /\ \A i \in 1..Len(entries) :
          EntryLaidOut(out, raw, entries[i],
                       ChosenBody(raw, entries[i], replacements), OutOffset(out, i))
    /\ \A i \in 1..(Len(entries) - 1) :
          OutOffset(out, i + 1)
              = OutOffset(out, i) + ENTRY_HEADER
                    + Len(ChosenBody(raw, entries[i], replacements))

\* C10: for any accepted archive and any replacement map, build_lgp_archive
\* emits the entries in TOC order, each as the original 20-byte header name,
\* the u32 length of the chosen body and the chosen body (the replacement keyed
\* by the lowercased entry name, else the original body); the first entry
\* starts at the smallest original offset, each next entry starts where the
\* previous one ends, and TOC record i's offset field is the output position
\* of entry i's header.
C10_RebuildLayout ==
    (g_pc = "done" /\ g_out.ok /\ Len(g_arch.val.entries) > 0)
        => LayoutHolds(g_out.val, g_raw, g_arch.val.entries, g_repl)

\* The target slot of a patch call, read off the buffer as it was: its start,
\* the bound the next slot (or the buffer end) sets, its end one past the
\* first 0xFF at or after start within that bound, and its capacity.
SlotStart(c) == c.texts_base + c.positions[c.text_id + 1]

SlotBound(c) ==
    IF c.text_id + 1 < c.text_count
    THEN Min(c.texts_base + c.positions[c.text_id + 2], Len(c.orig))
    ELSE Len(c.orig)

SlotSentinels(c) == {e \in SlotStart(c)..(SlotBound(c) - 1) : At(c.orig, e) = 255}

SlotEndOf(c) ==
    IF SlotSentinels(c) = {} THEN SlotBound(c) ELSE SetMin(SlotSentinels(c)) + 1

SlotCapacity(c) == SlotEndOf(c) - SlotStart(c)

CandidatesOf(c) ==
    IF c.fn = "pickup" THEN PickupCandidates(c.item_id, c.is_materia)
    ELSE NameVariants(c.key_name)

NoCandidateFits(c) ==
    \A k \in 1..Len(CandidatesOf(c)) :
        Len(encode_ff7_ascii(CandidatesOf(c)[k])) + 1 > SlotCapacity(c)

\* C8: for any buffer, text layout and text id, patch_pickup_text_in_place and
\* patch_key_text_in_place never change the buffer length and never modify a
\* byte outside the target slot's span [start, end).
C8_WritesConfined ==
    t_ret # "none" =>
        /\ Len(t_buf) = Len(t_call.orig)
        /\ \A k \in 1..Len(t_call.orig) :
              t_buf[k] # t_call.orig[k] =>
                  /\ t_call.text_id < t_call.text_count
                  /\ k - 1 >= SlotStart(t_call)
                  /\ k - 1 < SlotEndOf(t_call)

\* C8 witness: a key-item patch succeeded and rewrote a slot that is followed
\* by further bytes of the buffer.
C8_Witness ==
    /\ t_ret = "true"
    /\ t_call.fn = "key"
    /\ t_buf # t_call.orig
    /\ SlotStart(t_call) > 0
    /\ SlotEndOf(t_call) < Len(t_buf)

\* C9: if no candidate rendering fits the slot, or the text id is not below
\* the text count, or the slot start lies outside the buffer, both patch
\* functions return false and leave every byte of the buffer unchanged.
C9_FailureLeavesBuffer ==
    (/\ t_ret # "none"
     /\ \/ t_call.text_id >= t_call.text_count
        \/ SlotStart(t_call) >= Len(t_call.orig)
        \/ NoCandidateFits(t_call))
        => (t_ret = "false" /\ t_buf = t_call.orig)

\* C9 witness: a pickup patch on an existing slot inside the buffer, with room
\* for some text, failed because not even the shortest rendering fits.
C9_Witness ==
    /\ t_ret = "false"
    /\ t_call.fn = "pickup"
    /\ t_call.text_id < t_call.text_count
    /\ SlotStart(t_call) < Len(t_call.orig)
    /\ SlotCapacity(t_call) >= 3
    /\ NoCandidateFits(t_call)

\* What the header of a field buffer o says about its Section1: where
\* Section0's size field, Section1, the AKAO offset table and the text table
\* are, and where the text table ended.
S0Of(o) == U32At(o, 6)
Sec1StartOf(o) == S0Of(o) + 4
SectionCountOf(o) == U32At(o, 2)
Sec1EndOf(o) == IF SectionCountOf(o) > 1 THEN U32At(o, 10) ELSE Len(o)
TextsBaseOf(o) == Sec1StartOf(o) + U16At(o, Sec1StartOf(o) + 4)
AkaoCountOf(o) == U16At(o, Sec1StartOf(o) + 6)
AkaoTableOf(o) == Sec1StartOf(o) + 32 + 8 * At(o, Sec1StartOf(o) + 2)
OldEndOf(o) ==
    TextRegionEnd(o, Sec1StartOf(o), Sec1EndOf(o), TextsBaseOf(o), AkaoTableOf(o),
                  AkaoCountOf(o))

\* The four bytes of the u32 at off, and of that value + delta.
Field(o, off) == Slice(o, off, off + 4)
FieldPlus(o, off, delta) == AddU32Bytes(Field(o, off), delta)

DialogSucceeded == d_calls > 0 /\ d_ret.kind = "some"
DialogDelta == Len(d_buf) - Len(d_orig)

\* C5: after add_dialog_entry_for_pickup succeeds having changed the text
\* table's length by delta bytes, every AKAO relative offset and every
\* section-position value that pointed at or beyond the old end of the text
\* table equals its original value + delta, and Section0's declared size equals
\* its original value + delta.
C5_RelocationConsistent ==
    DialogSucceeded =>
        /\ \A j \in 0..(AkaoCountOf(d_orig) - 1) :
              AtOrBeyond(Field(d_orig, AkaoTableOf(d_orig) + 4 * j),
                         OldEndOf(d_orig) - Sec1StartOf(d_orig))
                  => Field(d_buf, AkaoTableOf(d_orig) + 4 * j)
                         = FieldPlus(d_orig, AkaoTableOf(d_orig) + 4 * j, DialogDelta)
        /\ \A idx \in 0..(SectionCountOf(d_orig) - 1) :
              AtOrBeyond(Field(d_orig, 6 + 4 * idx), OldEndOf(d_orig))
                  => Field(d_buf, 6 + 4 * idx)
                         = FieldPlus(d_orig, 6 + 4 * idx, DialogDelta)
        /\ Field(d_buf, S0Of(d_orig)) = FieldPlus(d_orig, S0Of(d_orig), DialogDelta)

\* The text block a successful call builds from the buffer o.
ExpectedBlock(o, args) ==
    NewBlock(Append(CollectStrings(o, TextsBaseOf(o),
                                   get_pc_field_text_layout(o).val.positions,
                                   OldEndOf(o), 0, <<>>).val,
                    DialogMessage(args.qty, args.item_id, args.is_materia)))

\* Byte k of o with block spliced over the old text table.
SplicedByte(o, block, k) ==
    IF k < TextsBaseOf(o) THEN At(o, k)
    ELSE IF k < TextsBaseOf(o) + Len(block) THEN block[k - TextsBaseOf(o) + 1]
    ELSE At(o, k - (Len(block) - (OldEndOf(o) - TextsBaseOf(o))))

\* Byte k of the relocated fields: an AKAO offset at or beyond the old table
\* end, Section0's size and the section positions 1.. hold their original
\* value + delta.
InAkaoField(o, k) ==
    /\ k >= AkaoTableOf(o)
    /\ k < AkaoTableOf(o) + 4 * AkaoCountOf(o)
    /\ AtOrBeyond(Field(o, k - ((k - AkaoTableOf(o)) % 4)),
                  OldEndOf(o) - Sec1StartOf(o))

InShiftedField(o, k) ==
    \/ InAkaoField(o, k)
    \/ k >= S0Of(o) /\ k < S0Of(o) + 4
    \/ k >= 10 /\ k < 6 + 4 * SectionCountOf(o)

FieldStart(o, k) ==
    IF k >= 10 /\ k < 6 + 4 * SectionCountOf(o) THEN k - ((k - 10) % 4)
    ELSE IF k >= S0Of(o) /\ k < S0Of(o) + 4 THEN S0Of(o)
    ELSE k - ((k - AkaoTableOf(o)) % 4)

ExpectedByte(o, block, delta, k) ==
    IF InShiftedField(o, k)
    THEN FieldPlus(o, FieldStart(o, k), delta)[k - FieldStart(o, k) + 1]
    ELSE SplicedByte(o, block, k)

AllApplied(o, buf, block) ==
    /\ Len(buf) = Len(o) + Len(block) - (OldEndOf(o) - TextsBaseOf(o))
    /\ \A k \in 0..(Len(buf) - 1) :
          At(buf, k) = ExpectedByte(o, block, Len(buf) - Len(o), k)

\* C6: add_dialog_entry_for_pickup is all-or-nothing: when it returns None the
\* buffer is byte-for-byte unchanged; when it returns Some, the text-table
\* splice, the AKAO offset shifts, the Section0 size update and the
\* section-position updates have all been applied with the same delta; no
\* other outcome is reachable.
C6_AllOrNothing ==
    d_calls > 0 =>
        /\ d_ret.kind \in {"none", "some"}
        /\ d_ret.kind = "none" => d_buf = d_orig
        /\ d_ret.kind = "some" => AllApplied(d_orig, d_buf, ExpectedBlock(d_orig, d_args))

\* What lzs_decompress_raw puts out for a stream: its loop run to the return,
\* nothing for the empty stream (which it refuses).
RECURSIVE DecRunFrom(_)
DecRunFrom(st) == IF st.ret THEN st.d.out ELSE DecRunFrom(DecStep(st.d))

RawOutput(data) ==
    IF data = <<>> THEN <<>> ELSE DecRunFrom([d |-> DecInit(data), ret |-> FALSE])

\* The payload after the 4-byte little-endian length prefix, the length
\* clamped to the bytes available; empty when there is no prefix.
PrefixedPayload(data) ==
    IF Len(data) < 4 THEN <<>>
    ELSE Slice(data, 4, 4 + MinLE32(data[1], data[2], data[3], data[4], Len(data) - 4))

FirstNonEmpty(first, second) ==
    IF first # <<>> THEN Ok(first) ELSE IF second # <<>> THEN Ok(second) ELSE Err

\* C12: lzs_decompress fails on empty input; otherwise it returns the output
\* of decoding the payload after the 4-byte length prefix (length clamped to
\* the bytes available) when that is non-empty, otherwise the output of
\* decoding the whole input as a headerless stream when that is non-empty, and
\* it fails exactly when both attempts yield no output.
C12_TwoPhaseDecompress ==
    lz_pc = "done" =>
        lz_two = IF lz_arg = <<>> THEN Err
                 ELSE FirstNonEmpty(RawOutput(PrefixedPayload(lz_arg)), RawOutput(lz_arg))

\* C12 witnesses: the prefixed attempt returned; the prefixed attempt gave
\* nothing and the headerless one returned; both gave nothing.
C12_Witness ==
    /\ lz_pc = "done"
    /\ lz_input = <<>>
    /\ Len(lz_arg) >= 4
    /\ lz_first = <<>>
    /\ RawOutput(PrefixedPayload(lz_arg)) = <<>>
    /\ PrefixedPayload(lz_arg) # <<>>
    /\ lz_two = Ok(RawOutput(lz_arg))
    /\ lz_two # Err

\* C13: for every buffer, every region_end <= len(buffer) and every offset <
\* region_end, opcode_size_pc returns a length L with 1 <= L <= region_end -
\* offset, whatever the opcode byte and the payload, and it returns 0 only
\* when offset >= region_end.
C13_ForwardProgress ==
    \A L \in w_ret :
        /\ w_i < w_end => (1 <= L /\ L <= w_end - w_i)
        /\ L = 0 => w_i >= w_end

\* C13 witness: a call inside the region returned the whole rest of the
\* region, more than one byte, for KAWAI with a size byte beyond the region.
C13_Witness ==
    /\ w_ret = {w_end - w_i}
    /\ w_end - w_i > 1
    /\ At(w_buf, w_i) = OP_KAWAI
    /\ At(w_buf, w_i + 1) > w_end - w_i

\* The byte at offset k, 0 past the end of the buffer.
ByteOrZero(buf, k) == IF k < Len(buf) THEN At(buf, k) ELSE 0

\* The length the reference definition computes before its final rule.
ReferenceSize(buf, offset, region_end) ==
    IF At(buf, offset) = 28 THEN 6 + Min(ByteOrZero(buf, offset + 5), 128)
    ELSE IF At(buf, offset) = 40
    THEN IF ByteOrZero(buf, offset + 1) # 0
         THEN Min(ByteOrZero(buf, offset + 1), region_end - offset)
         ELSE 3
    ELSE OPCODE_LENGTH[At(buf, offset) + 1]

FinalRule(size, rest) == IF size = 0 \/ size > rest THEN Min(1, rest) ELSE size

\* C14: opcode_size_pc returns the fixed table length of the opcode at
\* offset, except that 0x1C returns 6 + min(buffer[offset+5], 128) and 0x28
\* returns buffer[offset+1] clamped to region_end - offset when that byte is
\* non-zero (the table length 3 when it is zero); whenever the length so
\* computed is zero or exceeds region_end - offset, the result is
\* min(1, region_end - offset) instead.
C14_ReferenceLength ==
    (w_ret # {} /\ w_i < w_end) =>
        w_ret = {FinalRule(ReferenceSize(w_buf, w_i, w_end), w_end - w_i)}

\* C14 witness: 0x1C with a sub-size byte above the cap returned 6 + 128.
C14_Witness ==
    /\ w_ret = {134}
    /\ w_i < w_end
    /\ At(w_buf, w_i) = OP_UNUSED1C
    /\ At(w_buf, w_i + 5) > 128

\* The encoded length of the k-th rendering of the call's list.
RenderedLen(c, k) == Len(encode_ff7_ascii(CandidatesOf(c)[k]))

\* The k-th rendering is the first of the list that fits the slot.
FirstThatFits(c, k) ==
    /\ RenderedLen(c, k) + 1 <= SlotCapacity(c)
    /\ \A j \in 1..(k - 1) : RenderedLen(c, j) + 1 > SlotCapacity(c)

\* The slot of buf holds the k-th rendering and 0xFF up to its end.
SlotHolds(c, buf, k) ==
    /\ Slice(buf, SlotStart(c), SlotStart(c) + RenderedLen(c, k))
           = encode_ff7_ascii(CandidatesOf(c)[k])
    /\ \A e \in (SlotStart(c) + RenderedLen(c, k))..(SlotEndOf(c) - 1) : At(buf, e) = 255

\* The three name-based renderings come first, longest to shortest.
NameBasedLongestFirst(c) ==
    /\ Len(CandidatesOf(c)) >= 3
    /\ RenderedLen(c, 1) > RenderedLen(c, 2)
    /\ RenderedLen(c, 2) > RenderedLen(c, 3)

\* C15: when patch_pickup_text_in_place or patch_key_text_in_place returns
\* true, the slot holds, from start, the first rendering of the fixed list
\* (name-based renderings from longest to shortest, then the generic
\* fallbacks) whose encoded length + 1 does not exceed the slot capacity, and
\* every remaining byte of the slot up to end is 0xFF.
C15_FirstFittingWritten ==
    t_ret = "true" =>
        /\ NameBasedLongestFirst(t_call)
        /\ \E k \in 1..Len(CandidatesOf(t_call)) :
              FirstThatFits(t_call, k) /\ SlotHolds(t_call, t_buf, k)
        /\ At(t_buf, SlotEndOf(t_call) - 1) = 255

\* C15 witness: a pickup patch wrote a generic fallback, after no name-based
\* rendering fitted, and padded at least two bytes behind it.
C15_Witness ==
    /\ t_ret = "true"
    /\ t_call.fn = "pickup"
    /\ FirstThatFits(t_call, 5)
    /\ SlotHolds(t_call, t_buf, 5)
    /\ SlotCapacity(t_call) >= RenderedLen(t_call, 5) + 2

\* Byte k lies in the offset field of one of the first n TOC records.
InTocOffsetField(k, n) ==
    \E i \in 1..n :
        /\ k >= TOC_START + (i - 1) * ENTRY_SIZE + NAME_LEN
        /\ k < TOC_START + (i - 1) * ENTRY_SIZE + NAME_LEN + 4

\* Where the last rebuilt entry ends: the data region's start plus a header
\* and the chosen body for every entry.
RECURSIVE RebuiltEnd(_, _, _, _)
RebuiltEnd(raw, entries, replacements, k) ==
    IF k = 0 THEN DataStart(entries)
    ELSE RebuiltEnd(raw, entries, replacements, k - 1)
             + ENTRY_HEADER + Len(ChosenBody(raw, entries[k], replacements))

HeaderAreaKept(out, raw, entries) ==
    \A k \in 0..(DataStart(entries) - 1) :
        ~InTocOffsetField(k, Len(entries)) => At(out, k) = At(raw, k)

TailKept(out, raw, tail_start, rebuilt_end) ==
    /\ Len(out) = rebuilt_end + (Len(raw) - tail_start)
    /\ Slice(out, rebuilt_end, Len(out)) = Slice(raw, tail_start, Len(raw))

\* C16: build_lgp_archive leaves unchanged everything it does not relocate:
\* every byte before the data region other than the 4-byte TOC offset fields
\* is copied verbatim, and all original bytes that followed the end of the
\* last entry's body are appended verbatim after the last rebuilt entry, for
\* any replacement map.
C16_FrameKept ==
    (g_pc = "done" /\ g_out.ok /\ Len(g_arch.val.entries) > 0) =>
        /\ HeaderAreaKept(g_out.val, g_raw, g_arch.val.entries)
        /\ TailKept(g_out.val, g_raw, OldDataEnd(g_raw, g_arch.val.entries),
                    RebuiltEnd(g_raw, g_arch.val.entries, g_repl,
                               Len(g_arch.val.entries)))

\* The text table of a field buffer b as its bytes give it: the count field,
\* the i-th offset (from 0), and where string i must have ended: at the next
\* string's start, the last one at the end of Section1.
TableCount(b) == U16At(b, TextsBaseOf(b))
TableOffset(b, i) == U16At(b, TextsBaseOf(b) + 2 + 2 * i)

StringLimit(b, i) ==
    IF i + 1 < TableCount(b) THEN TextsBaseOf(b) + TableOffset(b, i + 1)
    ELSE Sec1EndOf(b)

\* The header, Section1's header and the text table's offsets can be read.
Readable(b) ==
    /\ Len(b) >= HEADER_LEN
    /\ SectionCountOf(b) = SECTION_COUNT
    /\ Sec1StartOf(b) + 32 <= Len(b)
    /\ Sec1EndOf(b) <= Len(b)
    /\ AkaoTableOf(b) + 4 * AkaoCountOf(b) <= Len(b)
    /\ TextsBaseOf(b) + 2 <= Sec1EndOf(b)
    /\ TextsBaseOf(b) + 2 + 2 * TableCount(b) <= Sec1EndOf(b)

SectionsInside(b) ==
    \A idx \in 0..(SECTION_COUNT - 1) : U32Capped(b, 6 + 4 * idx, Len(b)) < Len(b)

AkaoInside(b) ==
    \A j \in 0..(AkaoCountOf(b) - 1) :
        Sec1StartOf(b) + U32Capped(b, AkaoTableOf(b) + 4 * j, Len(b)) < Len(b)

OffsetsIncrease(b) ==
    \A i \in 0..(TableCount(b) - 2) : TableOffset(b, i) < TableOffset(b, i + 1)

OffsetsStartAfterTable(b) ==
    TableCount(b) > 0 => TableOffset(b, 0) = 2 + 2 * TableCount(b)

\* Every string starts inside Section1 and has its 0xFF before its limit.
StringsTerminated(b) ==
    \A i \in 0..(TableCount(b) - 1) :
        /\ TextsBaseOf(b) + TableOffset(b, i) < Sec1EndOf(b)
        /\ StringLimit(b, i) <= Sec1EndOf(b)
        /\ \E e \in (TextsBaseOf(b) + TableOffset(b, i))..(StringLimit(b, i) - 1) :
              At(b, e) = 255

\* Section positions, AKAO offsets and text table within bounds, strings not
\* overlapping.
WithinBounds(b) ==
    /\ Readable(b)
    /\ SectionsInside(b)
    /\ AkaoInside(b)
    /\ OffsetsIncrease(b)
    /\ StringsTerminated(b)

\* C17: starting from a buffer whose section positions, AKAO offsets and text
\* table are within bounds with non-overlapping strings, any number of
\* successful add_dialog_entry_for_pickup calls leaves a buffer in which every
\* section position and every non-zero AKAO offset lies inside the resized
\* buffer, the text-table offsets are strictly increasing starting at
\* 2 + 2*count, and every string ends with its 0xFF sentinel before the next
\* string's start.
C17_InvariantSetKept ==
    (d_ret.kind = "some" /\ WithinBounds(d_first)) =>
        /\ Readable(d_buf)
        /\ SectionsInside(d_buf)
        /\ AkaoInside(d_buf)
        /\ OffsetsIncrease(d_buf)
        /\ OffsetsStartAfterTable(d_buf)
        /\ StringsTerminated(d_buf)

(***************************************************************************)
(* get_pc_field_script_range: where the script bytecode of a field file    *)
(* lies.                                                                   *)
(***************************************************************************)
\* Returning the whole of Section1 whatever posTexts says.
ScriptRangeWhole(sec1_start, sec1_end, pos_texts) == Some(<<sec1_start, sec1_end>>)

ScriptRangeTo(sec1_start, sec1_end, pos_texts) ==
    IF pos_texts = 0 THEN Some(<<sec1_start, sec1_end>>)
    ELSE Some(<<sec1_start, sec1_start + Min(pos_texts, sec1_end - sec1_start)>>)

ScriptRangeInSection(buf, sec1_start, sec1_end) ==
    IF sec1_end - sec1_start < 6 THEN Some(<<sec1_start, sec1_end>>)
    ELSE ScriptRangeTo(sec1_start, sec1_end, U16At(buf, sec1_start + 4))

ScriptRangeOfSections(buf, s0, s1) ==
    IF s0 + 4 > Len(buf) \/ s1 <= s0 + 4 \/ s1 > Len(buf) THEN None
    ELSE ScriptRangeInSection(buf, s0 + 4, s1)

\* The section positions are compared with buf.len() only, so they are read
\* as min(position, buf.len() + 1).
get_pc_field_script_range(buf) ==
    IF Len(buf) < 6 + 9 * 4 THEN None
    ELSE IF U32Capped(buf, 2, SECTION_COUNT + 1) # SECTION_COUNT THEN None
    ELSE ScriptRangeOfSections(buf, U32Capped(buf, 6, Len(buf) + 1), U32Capped(buf, 10, Len(buf) + 1))

\* The buffers a range is computed for: a 42-byte header with a section
\* count, the positions of sections 0 and 1 (each may be anything, 0xFFFFFFFF
\* included) and a body of up to max_body bytes in which the posTexts field of
\* the section at s0 is written where it falls into the body; and buffers
\* shorter than the header.
MaxBody == 16
SectionCounts == {SECTION_COUNT, SECTION_COUNT - 1}
Positions0 == {0, 38, 42, 44, 50, 56}
Positions1 == {0, 42, 46, 47, 48, 52, 53, 58}
PosTextsValues == {0, 1, 3, 6, 300}
Beyond == <<255, 255, 255, 255>>

PositionBytes(S) == {U32Bytes(v) : v \in S} \cup {Beyond}

RangeBody(s0, body_len, pos_texts) ==
    [k \in 1..body_len |->
        IF 42 + k - 1 = s0 + 8 THEN U16Bytes(pos_texts)[1]
        ELSE IF 42 + k - 1 = s0 + 9 THEN U16Bytes(pos_texts)[2]
        ELSE 7]

RangeBuffer(count, p0, p1, body_len, pos_texts) ==
    <<0, 0>> \o U32Bytes(count) \o p0 \o p1 \o [k \in 1..28 |-> 0]
        \o RangeBody(U32Capped(p0, 0, 255), body_len, pos_texts)

RangeBuffers(max_body) ==
    {RangeBuffer(count, p0, p1, body_len, pos_texts) :
        count \in SectionCounts, p0 \in PositionBytes(Positions0),
        p1 \in PositionBytes(Positions1), body_len \in 0..max_body,
        pos_texts \in PosTextsValues}
    \cup {[k \in 1..n |-> 0] : n \in {0, 6, 41}}

SrInit ==
    /\ FlIdle
    /\ KrIdle
    /\ RwIdle
    /\ LzIdle
    /\ WkIdle
    /\ KaIdle
    /\ LgIdle
    /\ TxIdle
    /\ DgIdle
    /\ FcIdle
    /\ s_buf \in RangeBuffers(MaxBody)
    /\ s_ret = Idle

ScriptRangeCall ==
    /\ s_ret = Idle
    /\ s_ret' = get_pc_field_script_range(s_buf)
    /\ UNCHANGED s_buf
    /\ UNCHANGED srRest

SrNext == ScriptRangeCall

SpecRange == SrInit /\ [][SrNext]_vars

\* What the call's buffer holds, read byte by byte: the positions of sections
\* 0 and 1 (told apart up to buf.len() + 1) and Section1's posTexts field.
RangeS0 == U32Capped(s_buf, 6, Len(s_buf) + 1)
RangeS1 == U32Capped(s_buf, 10, Len(s_buf) + 1)
RangePosTexts == At(s_buf, RangeS0 + 8) + 256 * At(s_buf, RangeS0 + 9)

RangeRefused ==
    \/ Len(s_buf) < 42
    \/ U32Capped(s_buf, 2, 10) # 9
    \/ RangeS0 + 4 > Len(s_buf)
    \/ RangeS1 > Len(s_buf)
    \/ RangeS1 <= RangeS0 + 4

\* C18: get_pc_field_script_range returns None when the buffer is shorter
\* than the 42-byte section table, the section count is not 9, or section
\* positions 0 and 1 are out of range or out of order; whenever it returns
\* Some((start, end)), start = section_position[0] + 4,
\* start < end <= section_position[1] <= len(buffer), and
\* end <= start + pos_texts when Section1 holds a non-zero pos_texts.
C18_ScriptRangeInBounds ==
    s_ret # Idle =>
        /\ RangeRefused => ~s_ret.some
        /\ s_ret.some =>
            /\ s_ret.val[1] = RangeS0 + 4
            /\ s_ret.val[1] < s_ret.val[2]
            /\ s_ret.val[2] <= RangeS1
            /\ RangeS1 <= Len(s_buf)
            /\ (RangeS1 - RangeS0 - 4 >= 6 /\ RangePosTexts # 0) =>
                   s_ret.val[2] <= s_ret.val[1] + RangePosTexts

\* A range cut short of Section1's end by posTexts.
C18_Witness ==
    /\ s_ret # Idle
    /\ s_ret.some
    /\ s_ret.val[2] < RangeS1
    /\ s_ret.val[2] = s_ret.val[1] + RangePosTexts

(***************************************************************************)
(* compile_script_from_str: the assembler of the field-script DSL.  A      *)
(* text is the sequence of its ASCII codes.                                 *)
(***************************************************************************)
\* u8::to_ascii_uppercase and to_ascii_lowercase
UpperOf(c) == IF c \in 97..122 THEN c - 32 ELSE c
LowerOf(c) == IF c \in 65..90 THEN c + 32 ELSE c

\* Leaving the case of a text as it is.
KeepCase(text) == text

\* str::to_ascii_uppercase
to_ascii_uppercase(text) == [k \in DOMAIN text |-> UpperOf(text[k])]

\* str::lines: the pieces between line feeds; no piece after a final line feed.
RECURSIVE LinesFrom(_, _, _)
LinesFrom(src, k, cur) ==
    IF k > Len(src) THEN (IF cur = <<>> THEN <<>> ELSE <<cur>>)
    ELSE IF src[k] = 10 THEN <<cur>> \o LinesFrom(src, k + 1, <<>>)
    ELSE LinesFrom(src, k + 1, Append(cur, src[k]))

Lines(src) == LinesFrom(src, 1, <<>>)

\* str::trim
RECURSIVE TrimStart(_)
TrimStart(text) ==
    IF text # <<>> /\ IsWhitespace(Head(text)) THEN TrimStart(Tail(text)) ELSE text

Trim(text) == TrimEnd(TrimStart(text))

\* str::split_whitespace: the maximal runs of non-whitespace characters.
RECURSIVE SplitFrom(_, _, _)
SplitFrom(text, k, cur) ==
    IF k > Len(text) THEN (IF cur = <<>> THEN <<>> ELSE <<cur>>)
    ELSE IF IsWhitespace(text[k])
         THEN (IF cur = <<>> THEN <<>> ELSE <<cur>>) \o SplitFrom(text, k + 1, <<>>)
    ELSE SplitFrom(text, k + 1, Append(cur, text[k]))

split_whitespace(text) == SplitFrom(text, 1, <<>>)

StartsWith(text, prefix) == Len(text) >= Len(prefix) /\ SubSeq(text, 1, Len(prefix)) = prefix

\* token.trim_end_matches(',')
RECURSIVE TrimEndCommas(_)
TrimEndCommas(tok) ==
    IF tok # <<>> /\ tok[Len(tok)] = 44 THEN TrimEndCommas(SubSeq(tok, 1, Len(tok) - 1))
    ELSE tok

\* char::to_digit(radix): -1 for a character that is no digit of the radix.
ToDigit(c, radix) ==
    IF c \in 48..57 THEN c - 48
    ELSE IF radix = 16 /\ LowerOf(c) \in 97..102 THEN LowerOf(c) - 87
    ELSE -1

\* The digit loop of from_str_radix with its checked multiply and add: the
\* value, or -1 for an invalid digit or a value above max.
RECURSIVE DigitsFrom(_, _, _, _, _)
DigitsFrom(digits, k, acc, radix, max) ==
    IF k > Len(digits) THEN acc
    ELSE IF ToDigit(digits[k], radix) < 0 THEN -1
    ELSE IF acc * radix + ToDigit(digits[k], radix) > max THEN -1
    ELSE DigitsFrom(digits, k + 1, acc * radix + ToDigit(digits[k], radix), radix, max)

\* uN::from_str_radix for an unsigned type: empty text and a lone sign are
\* errors, one leading '+' is accepted, '-' is no digit.
from_str_radix(text, radix, max) ==
    IF text = <<>> THEN -1
    ELSE IF Len(text) = 1 /\ text[1] \in {43, 45} THEN -1
    ELSE IF text[1] = 43 THEN DigitsFrom(Tail(text), 1, 0, radix, max)
    ELSE DigitsFrom(text, 1, 0, radix, max)

\* parse_int_u8 (max 255) and parse_int_u16 (max 65535) on the trimmed token:
\* the value, or -1 for Err(ParseInt).
ParseTrimmed(t, max) ==
    IF StartsWith(t, <<48, 120>>) \/ StartsWith(t, <<48, 88>>)
    THEN from_str_radix(SubSeq(t, 3, Len(t)), 16, max)
    ELSE from_str_radix(t, 10, max)

parse_int_u8(token) == ParseTrimmed(TrimEndCommas(token), 255)
parse_int_u16(token) == ParseTrimmed(TrimEndCommas(token), 65535)

CompileErr(kind, line) == [ok |-> FALSE, val |-> [kind |-> kind, line |-> line]]

\* The opcode names of the match in compile_script_from_str: "RET",
\* "SETWORD", "STITM", "SMTRA", "BITON", "BITOFF", "BITXOR", "MESSAGE".
RET == <<82, 69, 84>>
SETWORD == <<83, 69, 84, 87, 79, 82, 68>>
STITM == <<83, 84, 73, 84, 77>>
SMTRA == <<83, 77, 84, 82, 65>>
BITON == <<66, 73, 84, 79, 78>>
BITOFF == <<66, 73, 84, 79, 70, 70>>
BITXOR == <<66, 73, 84, 88, 79, 82>>
MESSAGE == <<77, 69, 83, 83, 65, 71, 69>>

\* The operands of one instruction parsed in order, each -1 where its parse
\* fails; wide holds the positions parsed as u16.
ParsedArgs(args, wide) ==
    [i \in DOMAIN args |-> IF i \in wide THEN parse_int_u16(args[i]) ELSE parse_int_u8(args[i])]

ParseFails(v) == \E i \in DOMAIN v : v[i] < 0

\* Accepting any bank pair.
pack_banks_unchecked(line, b1, b2) == Ok(<<((b1 * 16) % 256) + (b2 % 16)>>)

\* pack_banks: (b1 << 4) | (b2 & 0x0F), both banks at most 15.
pack_banks(line, b1, b2) ==
    IF b1 > 15 THEN CompileErr("ValueOutOfRange", line)
    ELSE IF b2 > 15 THEN CompileErr("ValueOutOfRange", line)
    ELSE Ok(<<b1 * 16 + (b2 % 16)>>)

SetwordBytes(line, v) ==
    IF ParseFails(v) THEN CompileErr("ParseInt", line)
    ELSE IF v[1] > 15 THEN CompileErr("ValueOutOfRange", line)
    ELSE Ok(<<129, ((v[1] * 16) % 256), v[2], v[3] % 256, v[3] \div 256>>)

StitmBytes(line, v) ==
    IF ParseFails(v) THEN CompileErr("ParseInt", line)
    ELSE Ok(<<88, v[1], v[2] % 256, v[2] \div 256, v[3]>>)

SmtraBytes(line, v) ==
    IF ParseFails(v) THEN CompileErr("ParseInt", line)
    ELSE IF Len(v) = 4 THEN Ok(<<91, 0, 0, v[1], v[2], v[3], v[4]>>)
    ELSE Ok(<<91, v[1], v[2], v[3], v[4], v[5], v[6]>>)

BitBytes(line, op_byte, v, banks) ==
    IF ~banks.ok THEN banks
    ELSE Ok(<<op_byte>> \o banks.val \o <<v[3], v[4]>>)

BitOp(line, op_byte, v) ==
    IF ParseFails(v) THEN CompileErr("ParseInt", line)
    ELSE BitBytes(line, op_byte, v, pack_banks(line, v[1], v[2]))

MessageBytes(line, v) ==
    IF ParseFails(v) THEN CompileErr("ParseInt", line)
    ELSE Ok(<<64, v[1], v[2]>>)

\* The match on the upper-cased opcode: the bytes of one instruction or its
\* error.
CompileInstruction(line, opcode, args) ==
    IF opcode = RET
    THEN (IF args = <<>> THEN Ok(<<0>>) ELSE CompileErr("WrongArgCount", line))
    ELSE IF opcode = SETWORD
    THEN (IF Len(args) # 3 THEN CompileErr("WrongArgCount", line)
          ELSE SetwordBytes(line, ParsedArgs(args, {3})))
    ELSE IF opcode = STITM
    THEN (IF Len(args) # 3 THEN CompileErr("WrongArgCount", line)
          ELSE StitmBytes(line, ParsedArgs(args, {2})))
    ELSE IF opcode = SMTRA
    THEN (IF Len(args) \notin {4, 6} THEN CompileErr("WrongArgCount", line)
          ELSE SmtraBytes(line, ParsedArgs(args, {})))
    ELSE IF opcode \in {BITON, BITOFF, BITXOR}
    THEN (IF Len(args) # 4 THEN CompileErr("WrongArgCount", line)
          ELSE BitOp(line, IF opcode = BITON THEN 130 ELSE IF opcode = BITOFF THEN 131 ELSE 132, ParsedArgs(args, {})))
    ELSE IF opcode = MESSAGE
    THEN (IF Len(args) # 2 THEN CompileErr("WrongArgCount", line)
          ELSE MessageBytes(line, ParsedArgs(args, {})))
    ELSE CompileErr("UnknownOpcode", line)

\* One trimmed, non-comment line split into its tokens.
CompileParts(line, parts) ==
    IF parts = <<>> THEN CompileErr("EmptyInstruction", line)
    ELSE CompileInstruction(line, to_ascii_uppercase(Head(parts)), Tail(parts))

IsSkipped(line) == line = <<>> \/ StartsWith(line, <<35>>) \/ StartsWith(line, <<47, 47>>)

\* The for loop over src.lines().enumerate(): idx counts from 1 here.
RECURSIVE CompileFrom(_, _, _)
CompileAfter(lines, idx, out, r) ==
    IF ~r.ok THEN r ELSE CompileFrom(lines, idx + 1, out \o r.val)

CompileFrom(lines, idx, out) ==
    IF idx > Len(lines) THEN Ok(out)
    ELSE IF IsSkipped(Trim(lines[idx])) THEN CompileFrom(lines, idx + 1, out)
    ELSE CompileAfter(lines, idx, out, CompileParts(idx, split_whitespace(Trim(lines[idx]))))

compile_script_from_str(src) == CompileFrom(Lines(src), 1, <<>>)

(***************************************************************************)
(* The source texts handed to the assembler.  A text is written from a     *)
(* program: a sequence of lines, each an instruction (an opcode name, how  *)
(* it is spelled and laid out, and its operand tokens) or a line the       *)
(* assembler skips.                                                        *)
(***************************************************************************)
MaxLines == 3

InstrLine(op, spell, layout, args) == [kind |-> "instr", op |-> op, spell |-> spell, layout |-> layout, args |-> args, text |-> <<>>]
SkipLine(text) == [kind |-> "skip", op |-> <<>>, spell |-> "upper", layout |-> "plain", args |-> <<>>, text |-> text]

\* An operand token: a value written in some style, or a token that is no
\* number (val -1).
Arg(val, style) == [val |-> val, style |-> style, tok |-> <<>>]
JunkArg(tok) == [val |-> -1, style |-> "junk", tok |-> tok]

HexDigit(d, upper) == IF d < 10 THEN 48 + d ELSE IF upper THEN 55 + d ELSE 87 + d

RECURSIVE Hex(_, _)
Hex(n, upper) ==
    IF n < 16 THEN <<HexDigit(n, upper)>>
    ELSE Hex(n \div 16, upper) \o <<HexDigit(n % 16, upper)>>

\* "104", "0x68", "0X68", "0x0068", "0104", "104," or the token itself
RenderArg(a) ==
    CASE a.style = "dec" -> Decimal(a.val)
      [] a.style = "hex" -> <<48, 120>> \o Hex(a.val, FALSE)
      [] a.style = "HEX" -> <<48, 88>> \o Hex(a.val, TRUE)
      [] a.style = "pad" -> <<48, 120, 48, 48>> \o Hex(a.val, TRUE)
      [] a.style = "zero" -> <<48>> \o Decimal(a.val)
      [] a.style = "comma" -> Decimal(a.val) \o <<44>>
      [] OTHER -> a.tok

\* "STITM", "stitm" or "sTiTm"
RenderOp(op, spell) ==
    CASE spell = "upper" -> op
      [] spell = "lower" -> [k \in DOMAIN op |-> LowerOf(op[k])]
      [] OTHER -> [k \in DOMAIN op |-> IF k % 2 = 1 THEN LowerOf(op[k]) ELSE op[k]]

RECURSIVE RenderArgs(_, _)
RenderArgs(args, sep) ==
    IF args = <<>> THEN <<>> ELSE sep \o RenderArg(Head(args)) \o RenderArgs(Tail(args), sep)

RenderLine(l) ==
    IF l.kind = "skip" THEN l.text
    ELSE IF l.layout = "plain" THEN RenderOp(l.op, l.spell) \o RenderArgs(l.args, <<32>>)
    ELSE <<32, 9>> \o RenderOp(l.op, l.spell) \o RenderArgs(l.args, <<9, 32>>) \o <<32>>

\* The lines joined by line feeds, with or without a final one.
RECURSIVE JoinLines(_)
JoinLines(prog) ==
    IF prog = <<>> THEN <<>>
    ELSE IF Len(prog) = 1 THEN RenderLine(prog[1])
    ELSE RenderLine(Head(prog)) \o <<10>> \o JoinLines(Tail(prog))

Source(prog, final_newline) == IF final_newline THEN JoinLines(prog) \o <<10>> ELSE JoinLines(prog)

\* The instruction forms and their operands: which are 16 bits wide, which
\* are bank nibbles.
OpForms == {<<RET, 0>>, <<SETWORD, 3>>, <<STITM, 3>>, <<SMTRA, 4>>, <<SMTRA, 6>>, <<BITON, 4>>, <<BITOFF, 4>>, <<BITXOR, 4>>, <<MESSAGE, 2>>}
KnownOps == {f[1] : f \in OpForms}
Arity(op) == {f[2] : f \in {g \in OpForms : g[1] = op}}
WideOperands(op) == IF op = SETWORD THEN {3} ELSE IF op = STITM THEN {2} ELSE {}
BankOperands(op) == IF op = SETWORD THEN {1} ELSE IF op \in {BITON, BITOFF, BITXOR} THEN {1, 2} ELSE {}
MaxOperand(op, i) == IF i \in WideOperands(op) THEN 65535 ELSE 255

U8Pool == <<0, 9, 104, 255>>
U16Pool == <<0, 255, 65279, 65535>>
BankPool == <<0, 1, 10, 15>>

Operand(op, i, k) ==
    IF i \in BankOperands(op) THEN BankPool[((i + k) % 4) + 1]
    ELSE IF i \in WideOperands(op) THEN U16Pool[((i + k + 2) % 4) + 1]
    ELSE U8Pool[((i + k) % 4) + 1]

Operands(op, n, k, style) == [i \in 1..n |-> Arg(Operand(op, i, k), style)]

Spells == {"upper", "lower", "mixed"}
Layouts == {"plain", "spaced"}
Styles == {"dec", "hex", "HEX", "pad", "zero", "comma"}

ValidLines ==
    {InstrLine(f[1], spell, layout, Operands(f[1], f[2], k, style)) :
        f \in OpForms, spell \in Spells, layout \in Layouts, k \in 0..3, style \in Styles}

\* "", " \t", "# RET 1", "  // x"
SkipLines == {SkipLine(<<>>), SkipLine(<<32, 9>>), SkipLine(<<35, 32, 82, 69, 84, 32, 49>>), SkipLine(<<32, 32, 47, 47, 32, 120>>)}

\* "NOP", "RETX", "58", ",", "/"
UnknownNames == {<<78, 79, 80>>, <<82, 69, 84, 88>>, <<53, 56>>, <<44>>, <<47>>}

\* "zz", "0x", "12a", "-1", "0xG", "+", "1.5"
JunkTokens == {<<122, 122>>, <<48, 120>>, <<49, 50, 97>>, <<45, 49>>, <<48, 120, 71>>, <<43>>, <<49, 46, 53>>}

BaseArgs(f) == Operands(f[1], f[2], 1, "dec")

UnknownOpLines == {InstrLine(name, "upper", "plain", BaseArgs(f)) : name \in UnknownNames, f \in {<<RET, 0>>, <<STITM, 3>>}}

ArgCountLines ==
    {InstrLine(f[1], "lower", "plain", Append(BaseArgs(f), Arg(1, "dec"))) : f \in OpForms \ {<<SMTRA, 4>>}}
    \cup {InstrLine(f[1], "upper", "spaced", Tail(BaseArgs(f))) : f \in OpForms \ {<<RET, 0>>}}
    \cup {InstrLine(SMTRA, "upper", "plain", BaseArgs(<<SMTRA, 6>>) \o <<Arg(1, "dec")>>)}

BadIntLines ==
    UNION {{InstrLine(f[1], "upper", "plain", [BaseArgs(f) EXCEPT ![i] = JunkArg(tok)]) :
        f \in {g \in OpForms : g[2] >= i}, tok \in JunkTokens} : i \in 1..6}

OversizedLines ==
    UNION {{InstrLine(f[1], "mixed", "plain", [BaseArgs(f) EXCEPT ![i] = Arg(MaxOperand(f[1], i) + 1, style)]) :
        f \in {g \in OpForms : g[2] >= i /\ i \notin BankOperands(g[1])}, style \in {"dec", "hex"}} : i \in 1..6}

BankLines ==
    UNION {{InstrLine(f[1], "upper", "plain", [BaseArgs(f) EXCEPT ![i] = Arg(v, style)]) :
        f \in {g \in OpForms : i \in BankOperands(g[1])}, v \in {16, 255}, style \in {"dec", "hex"}} : i \in 1..2}

BadLines == UnknownOpLines \cup ArgCountLines \cup BadIntLines \cup OversizedLines \cup BankLines

\* The lines longer programs are made of.
SampleLines ==
    {InstrLine(RET, "lower", "plain", <<>>),
     InstrLine(STITM, "upper", "plain", Operands(STITM, 3, 1, "hex")),
     InstrLine(BITON, "mixed", "spaced", Operands(BITON, 4, 2, "comma")),
     SkipLine(<<>>),
     SkipLine(<<32, 9>>),
     SkipLine(<<35, 32, 82, 69, 84, 32, 49>>),
     SkipLine(<<32, 32, 47, 47, 32, 120>>),
     InstrLine(<<78, 79, 80>>, "upper", "plain", <<>>),
     InstrLine(RET, "upper", "plain", <<Arg(1, "dec")>>),
     InstrLine(MESSAGE, "upper", "plain", <<Arg(0, "dec"), JunkArg(<<48, 120>>)>>),
     InstrLine(STITM, "upper", "plain", <<Arg(0, "dec"), Arg(65536, "dec"), Arg(1, "dec")>>),
     InstrLine(SETWORD, "upper", "plain", <<Arg(16, "dec"), Arg(1, "dec"), Arg(2, "dec")>>),
     InstrLine(BITXOR, "lower", "plain", <<Arg(1, "dec"), Arg(16, "hex"), Arg(2, "dec"), Arg(3, "dec")>>)}

Programs(max_lines) ==
    {<<l>> : l \in ValidLines \cup BadLines \cup SkipLines} \cup SeqsUpTo(SampleLines, max_lines)

FcInit ==
    /\ FlIdle
    /\ KrIdle
    /\ RwIdle
    /\ LzIdle
    /\ WkIdle
    /\ KaIdle
    /\ LgIdle
    /\ TxIdle
    /\ DgIdle
    /\ SrIdle
    /\ c_prog \in Programs(MaxLines)
    /\ \E final_newline \in BOOLEAN : c_src = Source(c_prog, final_newline)
    /\ c_ret = Idle

Compile ==
    /\ c_ret = Idle
    /\ c_ret' = compile_script_from_str(c_src)
    /\ UNCHANGED <<c_prog, c_src>>
    /\ UNCHANGED fcRest

FcNext == Compile

SpecCompile == FcInit /\ [][FcNext]_vars

\* What a line of a program is: "skip" for a blank or comment line, "ok" for
\* an instruction of the vocabulary with the right number of in-range
\* operands, otherwise what is wrong with it.
Cause(l) ==
    IF l.kind = "skip" THEN "skip"
    ELSE IF l.op \notin KnownOps THEN "UnknownOpcode"
    ELSE IF Len(l.args) \notin Arity(l.op) THEN "WrongArgCount"
    ELSE IF \E i \in DOMAIN l.args : l.args[i].val < 0 \/ l.args[i].val > MaxOperand(l.op, i) THEN "ParseInt"
    ELSE IF \E i \in BankOperands(l.op) : l.args[i].val > 15 THEN "ValueOutOfRange"
    ELSE "ok"

\* The fixed template of an instruction with operand values v.
BitOpcode(op) == IF op = BITON THEN 130 ELSE IF op = BITOFF THEN 131 ELSE 132

Template(op, v) ==
    IF op = RET THEN <<0>>
    ELSE IF op = SETWORD THEN <<129, v[1] * 16, v[2], v[3] % 256, v[3] \div 256>>
    ELSE IF op = STITM THEN <<88, v[1], v[2] % 256, v[2] \div 256, v[3]>>
    ELSE IF op = SMTRA /\ Len(v) = 4 THEN <<91, 0, 0, v[1], v[2], v[3], v[4]>>
    ELSE IF op = SMTRA THEN <<91, v[1], v[2], v[3], v[4], v[5], v[6]>>
    ELSE IF op = MESSAGE THEN <<64, v[1], v[2]>>
    ELSE <<BitOpcode(op), v[1] * 16 + v[2], v[3], v[4]>>

Values(l) == [i \in DOMAIN l.args |-> l.args[i].val]

\* C11: for every in-range operand value, compile_script_from_str maps a
\* single instruction line to its fixed template (RET, SETWORD, STITM, SMTRA
\* in both forms, BITON/BITOFF/BITXOR, MESSAGE), whatever the case of the
\* opcode and whether the operands are decimal or 0x-prefixed hex.
C11_AssemblerExact ==
    (c_ret # Idle /\ Len(c_prog) = 1 /\ Cause(c_prog[1]) = "ok") =>
        c_ret = Ok(Template(c_prog[1].op, Values(c_prog[1])))

\* "setword 0xa 0xff 0xfeff" compiled to 81 A0 FF FF FE.
C11_Witness ==
    /\ c_ret # Idle
    /\ Len(c_prog) = 1
    /\ c_prog[1].op = SETWORD
    /\ c_prog[1].spell = "lower"
    /\ c_prog[1].args[1].style = "hex"
    /\ c_ret = Ok(<<129, 160, 255, 255, 254>>)

\* The lines of a program that are in error, and the first of them.
Offending(prog) == {i \in DOMAIN prog : Cause(prog[i]) \notin {"ok", "skip"}}
FirstOffending(prog) == CHOOSE i \in Offending(prog) : \A j \in Offending(prog) : i <= j

RECURSIVE TemplatesFrom(_, _)
TemplatesFrom(prog, i) ==
    IF i > Len(prog) THEN <<>>
    ELSE IF Cause(prog[i]) = "skip" THEN TemplatesFrom(prog, i + 1)
    ELSE Template(prog[i].op, Values(prog[i])) \o TemplatesFrom(prog, i + 1)

\* A failure is the cause and the 1-based number of the first offending line,
\* blank and comment lines counted, and carries no bytes; a program without
\* an offending line compiles.
ErrorsReported ==
    IF Offending(c_prog) # {}
    THEN c_ret = CompileErr(Cause(c_prog[FirstOffending(c_prog)]), FirstOffending(c_prog))
    ELSE c_ret = Ok(TemplatesFrom(c_prog, 1))

ListedCauses == {"UnknownOpcode", "WrongArgCount", "ParseInt", "ValueOutOfRange"}

\* Some one-line text of the samples fails with this cause.  This does not
\* depend on the state and is evaluated in the states of the empty program.
Produced(cause) ==
    \E l \in SampleLines \cup SkipLines \cup {InstrLine(<<44>>, "upper", "plain", <<>>)} :
        \E final_newline \in BOOLEAN :
            compile_script_from_str(Source(<<l>>, final_newline)) = CompileErr(cause, 1)

\* C19 as amended: compile_script_from_str fails, returning no bytes at all,
\* with an error carrying the 1-based number of the first offending source
\* line (blank and comment lines counted) and its cause: unknown opcode,
\* wrong argument count, malformed or oversized integer literal, or a bank
\* nibble above 15; each of these four causes is produced by some input, and
\* no failure is an empty instruction.
C19_ErrorsReported ==
    c_ret # Idle =>
        /\ ErrorsReported
        /\ ~c_ret.ok => c_ret.val.kind \in ListedCauses
        /\ c_prog = <<>> => \A cause \in ListedCauses : Produced(cause)

\* C19 as stated: the same, with the empty instruction among the causes
\* some input produces.
C19_AsStated ==
    c_ret # Idle =>
        /\ ErrorsReported
        /\ c_prog = <<>> => \A cause \in ListedCauses \cup {"EmptyInstruction"} : Produced(cause)

\* An error on line 3, after an instruction and a comment line.
C19_Witness ==
    /\ c_ret # Idle
    /\ Len(c_prog) = 3
    /\ Cause(c_prog[1]) = "ok"
    /\ c_prog[2].kind = "skip"
    /\ c_prog[2].text # <<>>
    /\ c_ret = CompileErr("ValueOutOfRange", 3)

\* The sections the parse produced and, for section i, how many sections
\* immediately before it form an unbroken run with its dir_id.
ParsedFiles == k_arch.val.files

RunBefore(files, i) ==
    Cardinality({j \in 1..(i - 1) : \A m \in j..i : files[m].dir_id = files[i].dir_id})

InHistory(e, p) == ((e.r - p) % N) \in 1..(N - F)

\* How far the string at ring position p agrees with the lookahead at r,
\* counted from i, at most cap bytes.
RECURSIVE CommonPrefix(_, _, _, _)
CommonPrefix(e, p, i, cap) ==
    IF i < cap /\ e.text_buf[e.r + i] = e.text_buf[p + i] THEN CommonPrefix(e, p, i + 1, cap) ELSE i

\* The history positions whose string starts with the lookahead's first byte,
\* and the longest common prefix among them (0 when there is none), capped at
\* F and at the remaining input.
StartingWith(e, c) == {p \in 0..(N - 1) : e.text_buf[p] = c /\ InHistory(e, p)}

Candidates(e) == StartingWith(e, e.text_buf[e.r])

MaxOf(S) == IF S = {} THEN 0 ELSE SetMax(S)

LongestIn(e, cands) == MaxOf({CommonPrefix(e, p, 1, Min(F, e.len)) : p \in cands})

Longest(e) == LongestIn(e, Candidates(e))

\* What the next iteration of the main loop emits: a match of this length, or
\* a literal when it is at most 2.
EmittedLength(e) == Min(e.match_length, e.len)

EmitsLongest(emitted, longest) ==
    /\ emitted > 2 => emitted = longest
    /\ emitted <= 2 => longest < 3

\* C24: at every encoding step lzs_compress emits the longest match
\* available: the emitted match length equals the maximum, over all positions
\* of the current history window, of the common-prefix length between the
\* string at that position and the lookahead (capped at 18 and at the
\* remaining input), and a literal is emitted only when that maximum is
\* below 3.
C24_LongestMatch ==
    lz_pc = "compress" => EmitsLongest(EmittedLength(enc), Longest(enc))

\* A match is about to be emitted while a shorter match of at least 3 bytes
\* is also in the history.
C24_Witness ==
    /\ lz_pc = "compress"
    /\ EmittedLength(enc) > 3
    /\ \E p \in Candidates(enc) :
           CommonPrefix(enc, p, 1, Min(F, enc.len)) \in 3..(EmittedLength(enc) - 1)

\* The history positions whose common prefix with the lookahead has the given
\* length, and the one of them nearest behind r.
MatchesOfLength(e, cands, n) == {p \in cands : CommonPrefix(e, p, 1, Min(F, e.len)) = n}

Distance(e, p) == (e.r - p) % N

IsNearest(e, p, S) == p \in S /\ \A q \in S : Distance(e, p) <= Distance(e, q)

\* The number of bytes already encoded: r has advanced this many times since
\* the start, inserting each position it left.
Encoded(e) == e.data_pos - e.len

\* When position p was inserted, counted from the insertion of the first
\* lookahead position (0): the positions at distance at most Encoded(e) were
\* inserted as r advanced, the F positions before the first lookahead were
\* inserted before it, nearest first, and the others never.
Inserted(e, p) == Distance(e, p) <= Encoded(e) + F

InsertTime(e, p) ==
    IF Distance(e, p) <= Encoded(e)
    THEN Encoded(e) - Distance(e, p)
    ELSE (Distance(e, p) - Encoded(e)) - (F + 1)

IsLatest(e, p, S) == p \in S /\ \A q \in S : InsertTime(e, p) >= InsertTime(e, q)

InsertedOf(e, S) == {p \in S : Inserted(e, p)}

EmitsNearestOrLatest(e, best, ins) ==
    \/ IsNearest(e, e.match_position, best)
    \/ IsLatest(e, e.match_position, ins)

EmitsOneOf(e, best) == e.match_position \in best

\* C25 (as stated): when several history positions give the same longest
\* match length for the current lookahead, lzs_compress emits the position of
\* the most recently inserted (nearest) one, under either reading: the one
\* nearest behind the lookahead, or the one inserted into the tree last.
C25_NearestMatch ==
    (lz_pc = "compress" /\ EmittedLength(enc) > 2)
        => \E best \in {MatchesOfLength(enc, Candidates(enc), EmittedLength(enc))} :
              EmitsNearestOrLatest(enc, best, InsertedOf(enc, best))

EmitsLatestIfFull(e, ins) ==
    EmittedLength(e) = F => IsLatest(e, e.match_position, ins)

\* C25 (amended): when several history positions give the same longest match
\* length for the current lookahead, lzs_compress emits the position of one
\* of them, and of the most recently inserted one when the match has the full
\* length of 18 bytes.
C25_OneOfLongest ==
    (lz_pc = "compress" /\ EmittedLength(enc) > 2)
        => \E best \in {MatchesOfLength(enc, Candidates(enc), EmittedLength(enc))} :
              /\ EmitsOneOf(enc, best)
              /\ EmitsLatestIfFull(enc, InsertedOf(enc, best))

\* A match is about to be emitted to a position that is neither the nearest
\* nor the last inserted of at least two tied positions.
C25_Witness ==
    /\ lz_pc = "compress"
    /\ EmittedLength(enc) > 2
    /\ \E best \in {MatchesOfLength(enc, Candidates(enc), EmittedLength(enc))} :
          /\ Cardinality(best) > 1
          /\ enc.match_position \in best
          /\ ~EmitsNearestOrLatest(enc, best, InsertedOf(enc, best))

\* The bytes written so far, the unfinished group included, and the number of
\* units the unfinished group holds (mask = 2^k).
Stream(e) == IF e.code_buf_ptr > 1 THEN e.result \o CodeBytes(e) ELSE e.result

UnitsInGroup(e) == CHOOSE k \in 0..7 : 2 ^ k = e.mask

\* The stream after the iteration that starts in e: lz_comp when it was the
\* last one.
StreamAfter(pc, comp, e) == IF pc = "compress" THEN Stream(e) ELSE comp

\* The unit the iteration emits is a literal, and the bytes it takes.
EmitsLiteral(e) == EmittedLength(e) <= 2

UnitSize(e) == IF EmitsLiteral(e) THEN 1 ELSE 2

ControlBit(e, k) == IF EmitsLiteral(e) THEN 2 ^ k ELSE 0

\* The stream ends with the unit: the literal byte, or the pair
\* (position_low, ((position >> 4) & 0xF0) | (length - 3)) of a match of 3 to
\* F bytes.
EndsWithUnit(new, e) ==
    IF EmitsLiteral(e)
    THEN new[Len(new)] = e.text_buf[e.r]
    ELSE /\ EmittedLength(e) \in 3..F
         /\ new[Len(new) - 1] = e.match_position % 256
         /\ new[Len(new)] \div 16 = e.match_position \div 256
         /\ new[Len(new)] % 16 = EmittedLength(e) - 3

\* What precedes the unit: the old stream with bit k of the unfinished
\* group's control byte set for a literal, or, when the old stream has only
\* full groups, the old stream and a new control byte with bit 0 alone.
GroupsBefore(old, ctl, k, bit) ==
    IF k = 0 THEN Append(old, bit) ELSE [old EXCEPT ![ctl] = @ + bit]

AppendsUnit(new, e, k) ==
    /\ Len(new) >= Len(Stream(e)) + UnitSize(e)
    /\ SubSeq(new, 1, Len(new) - UnitSize(e))
          = GroupsBefore(Stream(e), Len(e.result) + 1, k, ControlBit(e, k))
    /\ EndsWithUnit(new, e)

\* The unfinished group holds 1 to 7 units and nothing else is pending, so a
\* group is closed exactly when it has 8 units.
GroupCount(e) ==
    /\ e.code_buf_ptr \in (UnitsInGroup(e) + 1)..(2 * UnitsInGroup(e) + 1)
    /\ e.code_buf[0] < e.mask

\* C26: the output of lzs_compress is a sequence of code groups, each one
\* control byte followed by at most 8 units in order, bit k (least
\* significant first) of the control byte being 1 for a one-byte literal and 0
\* for a two-byte match (position_low, ((position>>4)&0xF0) | (length-3));
\* every emitted match has a length between 3 and 18, only the last group may
\* hold fewer than 8 units, and the unused high bits of its control byte are
\* 0. Stated step by step: every iteration of the main loop appends one unit
\* in this format to the stream written so far.
C26_StreamFormat ==
    [][lz_pc = "compress" =>
          /\ GroupCount(enc)
          /\ AppendsUnit(StreamAfter(lz_pc', lz_comp', enc'), enc, UnitsInGroup(enc))]_vars

\* A match is about to be appended to an unfinished group that follows a
\* full one.
C26_Witness ==
    /\ lz_pc = "compress"
    /\ Len(enc.result) > 0
    /\ UnitsInGroup(enc) \in 1..6
    /\ EmittedLength(enc) > 2

\* The states in which lzs_decompress_raw is running.
Decoding(pc) == pc \in {"raw", "header", "fallback"}

\* The flag register an iteration works with: a fresh flag byte (8 bits, the
\* bits above them marking how many are left) when the last one is used up,
\* the old one shifted right otherwise; and the input position after that.
FlagsAfter(d) ==
    IF FlagDue(d.flag_byte) THEN At(d.data, d.pos) + 65280 ELSE d.flag_byte \div 2

PosAfterFlag(d) == IF FlagDue(d.flag_byte) THEN d.pos + 1 ELSE d.pos

\* The flag bits still unused after the iteration's own bit.
FlagsLeft(flag_byte) == Cardinality({k \in 9..15 : (flag_byte \div (2 ^ k)) % 2 = 1})

\* The input is exhausted: no flag byte is left, or no byte after it, or only
\* one byte for a reference.
Exhausted(d) ==
    \/ FlagDue(d.flag_byte) /\ d.pos >= Len(d.data)
    \/ PosAfterFlag(d) >= Len(d.data)
    \/ FlagsAfter(d) % 2 = 0 /\ PosAfterFlag(d) + 1 >= Len(d.data)

\* The bytes a reference (b0, b1) copies: the j-th comes from ring position
\* offset + j - 1 (mod 4096), which is a byte of this very copy when that
\* position is one the copy has already written.
CopiedBytes(ring, cur, offset, n) ==
    LET byte[j \in 1..n] ==
            IF ((offset + j - 1) - cur) % 4096 < j - 1
            THEN byte[(((offset + j - 1) - cur) % 4096) + 1]
            ELSE ring[(offset + j - 1) % 4096]
    IN  [j \in 1..n |-> byte[j]]

\* The ring with the bytes written from the cursor on.
RECURSIVE RingWith(_, _, _, _)
RingWith(ring, cur, bytes, j) ==
    IF j > Len(bytes) THEN ring
    ELSE RingWith([ring EXCEPT ![(cur + j - 1) % 4096] = bytes[j]], cur, bytes, j + 1)

\* d2 is d after the bytes were produced and `used` input bytes consumed.
Produces(d, d2, at, used, bytes) ==
    /\ d2.out = d.out \o bytes
    /\ d2.text_buf = RingWith(d.text_buf, d.cur_buff, bytes, 1)
    /\ d2.cur_buff = (d.cur_buff + Len(bytes)) % 4096
    /\ d2.pos = at + used
    /\ d2.data = d.data

UnitStep(d, d2, at) ==
    IF d2.flag_byte % 2 = 1
    THEN Produces(d, d2, at, 1, <<At(d.data, at)>>)
    ELSE Produces(d, d2, at, 2,
                  CopiedBytes(d.text_buf, d.cur_buff,
                              At(d.data, at) + ((At(d.data, at + 1) \div 16) * 256),
                              (At(d.data, at + 1) % 16) + 3))

\* Flag bits are taken 8 per flag byte, least significant first.
FlagStep(d, d2) ==
    /\ d2.flag_byte = FlagsAfter(d)
    /\ FlagsLeft(d2.flag_byte) = IF FlagsLeft(d.flag_byte) = 0 THEN 7 ELSE FlagsLeft(d.flag_byte) - 1
    /\ FlagDue(d.flag_byte) <=> FlagsLeft(d.flag_byte) = 0

StartsFresh(d) ==
    /\ d.text_buf = [p \in 0..4095 |-> 0]
    /\ d.cur_buff = 4078
    /\ d.out = <<>>
    /\ d.pos = 0
    /\ FlagsLeft(d.flag_byte) = 0

\* C27: starting from a zero-filled ring buffer with the cursor at 4078,
\* lzs_decompress_raw consumes 8 flag bits per flag byte, least significant
\* first; a flag bit of 1 copies one input byte to the output and to the ring
\* at the cursor; a flag bit of 0 with bytes (b0, b1) copies exactly
\* (b1 & 0x0F) + 3 bytes read from ring positions offset, offset+1, ...
\* modulo 4096 with offset = b0 | ((b1 & 0xF0) << 4), each copied byte being
\* written to the ring at the cursor before the next one is read, so that a
\* reference may read bytes it has itself just written; decoding ends
\* without error when the input is exhausted.
C27_DecoderStep ==
    [][/\ (~Decoding(lz_pc) /\ Decoding(lz_pc')) => StartsFresh(dec')
       /\ (Decoding(lz_pc) /\ lz_pc' = lz_pc)
             => /\ ~Exhausted(dec)
                /\ FlagStep(dec, dec')
                /\ UnitStep(dec, dec', PosAfterFlag(dec))
       /\ (lz_pc = "raw" /\ lz_pc' # "raw")
             => /\ Exhausted(dec)
                /\ lz_raw' = Ok(dec.out)]_vars

\* The decoder is about to copy a reference that reads bytes it writes
\* itself: its offset is less than its length behind the cursor.
C27_Witness ==
    /\ lz_pc = "raw"
    /\ ~Exhausted(dec)
    /\ FlagsAfter(dec) % 2 = 0
    /\ Len(dec.out) > 0
    /\ \E at \in {PosAfterFlag(dec)} :
          /\ (At(dec.data, at + 1) % 16) + 3 > 3
          /\ (dec.cur_buff - (At(dec.data, at) + ((At(dec.data, at + 1) \div 16) * 256))) % 4096
                \in 1..3

(***************************************************************************)
(* The body the orchestrator registers for a changed field file: lib.rs,   *)
(* `if changed { if let Ok(new_payload) = field::lzs_compress(&buf) ... }`, *)
(* and what lzs_decompress makes of it.                                    *)
(***************************************************************************)
\* The body without its length prefix.
BodyBare(new_payload) == new_payload

\* body = new_lzs_size.to_le_bytes() followed by new_payload
FieldBody(new_payload) == U32Bytes(Len(new_payload)) \o new_payload

\* The body is built from the payload lzs_compress returned and handed to
\* lzs_decompress.
WriteBody ==
    /\ lz_pc = "call_raw"
    /\ lz_arg' = FieldBody(lz_comp)
    /\ lz_pc' = "call_decompress"
    /\ UNCHANGED <<lz_input, enc, dec, lz_comp, lz_raw, lz_two, lz_first>>
    /\ UNCHANGED lzRest

BodyNext ==
    \/ CompressCall
    \/ CompressStep
    \/ WriteBody
    \/ DecompressCall
    \/ HeaderStep
    \/ FallbackStep

SpecBody == LzInit /\ [][BodyNext]_vars

\* C29: for every non-empty buffer b, the body the orchestrator writes back,
\* the 4-byte little-endian length of c followed by c = lzs_compress(b), is
\* decoded by lzs_decompress to exactly b, and by its header-prefixed
\* attempt.
C29_BodyRoundTrip ==
    (lz_pc = "done" /\ lz_input # <<>>)
        => /\ Len(lz_arg) = Len(lz_comp) + 4
           /\ LE32(lz_arg[1], lz_arg[2], lz_arg[3], lz_arg[4]) = Len(lz_comp)
           /\ SubSeq(lz_arg, 5, Len(lz_arg)) = lz_comp
           /\ lz_first = lz_input
           /\ lz_two = Ok(lz_input)

\* The body of a buffer whose bare compressed stream lzs_decompress
\* misreads has been decoded.
C29_Witness ==
    /\ lz_pc = "done"
    /\ lz_input = <<0, 0, 1, 1, 1>>
    /\ lz_arg = <<6, 0, 0, 0>> \o lz_comp
    /\ lz_two = Ok(lz_input)

\* Entry i of the text table of b as it decodes: the bytes from its offset up
\* to and including the first 0xFF, the rest of the buffer when there is none.
RECURSIVE SentinelFrom(_, _)
SentinelFrom(b, at) ==
    IF at >= Len(b) THEN Len(b) ELSE IF At(b, at) = 255 THEN at + 1 ELSE SentinelFrom(b, at + 1)

EntryAt(b, start) == IF start >= Len(b) THEN <<>> ELSE Slice(b, start, SentinelFrom(b, start))

Entry(b, i) == EntryAt(b, TextsBaseOf(b) + TableOffset(b, i))

\* The bytes of b from at on.
TailFrom(b, at) == SubSeq(b, at + 1, Len(b))

EntriesKept(o, b, n) == \A k \in 0..(n - 1) : Entry(b, k) = Entry(o, k)

\* C28: when add_dialog_entry_for_pickup returns Some(id) on a table of n
\* entries, id = n, the table afterwards has n + 1 entries, every existing
\* entry k < n still decodes to the same bytes (up to and including its 0xFF
\* sentinel) as before the call, entry n is the encoded pickup message
\* terminated by 0xFF, and the bytes of the buffer that followed the old text
\* region are the same bytes, shifted by the change of length.
C28_TableGrows ==
    DialogSucceeded =>
        /\ d_ret.id = TableCount(d_orig)
        /\ TableCount(d_buf) = TableCount(d_orig) + 1
        /\ EntriesKept(d_orig, d_buf, TableCount(d_orig))
        /\ Entry(d_buf, TableCount(d_orig))
              = DialogMessage(d_args.qty, d_args.item_id, d_args.is_materia)
        /\ TailFrom(d_buf, OldEndOf(d_orig) + DialogDelta) = TailFrom(d_orig, OldEndOf(d_orig))

(***************************************************************************)
(* rewrite_vanilla_keystone_source: the script that sets the Keystone bit  *)
(* replaced in place by MESSAGE + STITM + RET.                             *)
(***************************************************************************)
NOP == 95

\* "MESSAGE 0 0\nSTITM 0 0x0000 1\nRET"
KEYSTONE_SRC ==
    MESSAGE \o <<32, 48, 32, 48, 10>> \o STITM
        \o <<32, 48, 32, 48, 120, 48, 48, 48, 48, 32, 49, 10>> \o RET

RewriteResult(buf, ret) == [buf |-> buf, ret |-> ret]

\* Writing the replacement whatever the script's length.
AlwaysFits(new_len, old_len) == TRUE

\* `if new_bytes.len() > old_len { return false; }`
ReplacementFits(new_len, old_len) == new_len <= old_len

\* new_bytes padded with NOP to old_len and copied over the script.
WriteScript(buf, script_start, old_len, new_bytes) ==
    IF ~ReplacementFits(Len(new_bytes), old_len) THEN RewriteResult(buf, "false")
    ELSE RewriteResult(CopyInto(buf, script_start,
                                new_bytes \o [k \in 1..(old_len - Len(new_bytes)) |-> NOP]),
                       "true")

ReplaceScript(buf, script_start, script_end, scripts_end, compiled) ==
    IF script_end <= script_start \/ script_end > scripts_end THEN RewriteResult(buf, "false")
    ELSE IF ~compiled.ok THEN RewriteResult(buf, "false")
    ELSE WriteScript(buf, script_start, script_end - script_start, compiled.val)

\* op == 0x82 with bank1 == 1, bank2 == 0, var == 69, bit == 2
IsKeystoneBiton(buf, pos) ==
    /\ At(buf, pos) = 130
    /\ At(buf, pos + 1) \div 16 = 1
    /\ At(buf, pos + 1) % 16 = 0
    /\ At(buf, pos + 2) = 69
    /\ At(buf, pos + 3) = 2

\* `while pos + 4 <= end`: the walk over one script, TRUE when it meets the
\* BITON.
RECURSIVE ScanScript(_, _, _)
ScanScript(buf, pos, end) ==
    IF pos + 4 > end THEN FALSE
    ELSE IF IsKeystoneBiton(buf, pos) THEN TRUE
    ELSE IF opcode_size_pc(buf, pos, end) = 0 THEN FALSE
    ELSE ScanScript(buf, pos + opcode_size_pc(buf, pos, end), end)

\* The end of the script si of the sorted list: the next script's start,
\* clamped to scripts_end, or scripts_end for the last one.
ScriptEnd(rels, si, scripts_start, scripts_end) ==
    IF si < Len(rels)
    THEN scripts_start + Min(rels[si + 1], SatSub(scripts_end, scripts_start))
    ELSE scripts_end

\* The `for (si, meta) in scripts.iter().enumerate()` loop: the first script
\* whose walk meets the BITON.
RECURSIVE FindTarget(_, _, _, _, _)
FindTarget(buf, rels, si, scripts_start, scripts_end) ==
    IF si > Len(rels) THEN None
    ELSE IF scripts_start + rels[si] >= scripts_end
    THEN FindTarget(buf, rels, si + 1, scripts_start, scripts_end)
    ELSE IF ScriptEnd(rels, si, scripts_start, scripts_end) <= scripts_start + rels[si]
            \/ ScriptEnd(rels, si, scripts_start, scripts_end) > scripts_end
    THEN FindTarget(buf, rels, si + 1, scripts_start, scripts_end)
    ELSE IF ScanScript(buf, scripts_start + rels[si],
                       ScriptEnd(rels, si, scripts_start, scripts_end))
    THEN Some(<<scripts_start + rels[si], ScriptEnd(rels, si, scripts_start, scripts_end)>>)
    ELSE FindTarget(buf, rels, si + 1, scripts_start, scripts_end)

\* The non-zero entries of the script pointer tables, in table order. Every
\* entry lies before scripts_start, so the loop's bounds check cannot fail.
RECURSIVE ScriptRels(_, _, _, _)
ScriptRels(buf, script_tables_off, k, count) ==
    IF k >= count THEN <<>>
    ELSE IF U16At(buf, script_tables_off + 2 * k) = 0
    THEN ScriptRels(buf, script_tables_off, k + 1, count)
    ELSE <<U16At(buf, script_tables_off + 2 * k)>>
             \o ScriptRels(buf, script_tables_off, k + 1, count)

\* scripts.sort_by_key(|s| s.rel): only rel is used afterwards.
RECURSIVE InsertSorted(_, _)
InsertSorted(sorted, rel) ==
    IF sorted = <<>> THEN <<rel>>
    ELSE IF rel < Head(sorted) THEN <<rel>> \o sorted
    ELSE <<Head(sorted)>> \o InsertSorted(Tail(sorted), rel)

RECURSIVE SortByRel(_, _)
SortByRel(rels, sorted) ==
    IF rels = <<>> THEN sorted ELSE SortByRel(Tail(rels), InsertSorted(sorted, Head(rels)))

RewriteTarget(buf, target, scripts_end) ==
    IF ~target.some THEN RewriteResult(buf, "false")
    ELSE ReplaceScript(buf, target.val[1], target.val[2], scripts_end,
                       compile_script_from_str(KEYSTONE_SRC))

RewriteScripts(buf, rels, scripts_start, scripts_end) ==
    IF rels = <<>> THEN RewriteResult(buf, "false")
    ELSE RewriteTarget(buf, FindTarget(buf, SortByRel(rels, <<>>), 1, scripts_start,
                                       scripts_end),
                       scripts_end)

RewriteTables(buf, sec1_end, n_entities, script_tables_off, texts_base) ==
    IF script_tables_off > sec1_end THEN RewriteResult(buf, "false")
    ELSE IF script_tables_off + 64 * n_entities > texts_base \/ texts_base > Len(buf)
    THEN RewriteResult(buf, "false")
    ELSE RewriteScripts(buf, ScriptRels(buf, script_tables_off, 0, 32 * n_entities),
                        script_tables_off + 64 * n_entities, texts_base)

RewriteSection1(buf, sec1_start, sec1_end, n_entities, n_akao, pos_texts) ==
    IF pos_texts = 0 THEN RewriteResult(buf, "false")
    ELSE IF sec1_start + pos_texts > sec1_end \/ sec1_start + pos_texts > Len(buf)
    THEN RewriteResult(buf, "false")
    ELSE RewriteTables(buf, sec1_end, n_entities,
                       sec1_start + 32 + 8 * n_entities + 4 * n_akao,
                       sec1_start + pos_texts)

RewriteSections(buf, section_count, s0, s1) ==
    IF s0 + 4 > Len(buf) THEN RewriteResult(buf, "false")
    ELSE IF s0 + 4 + 32 > (IF section_count > 1 THEN s1 ELSE Len(buf))
            \/ (IF section_count > 1 THEN s1 ELSE Len(buf)) > Len(buf)
    THEN RewriteResult(buf, "false")
    ELSE RewriteSection1(buf, s0 + 4, IF section_count > 1 THEN s1 ELSE Len(buf),
                         At(buf, s0 + 4 + 2), U16At(buf, s0 + 4 + 6), U16At(buf, s0 + 4 + 4))

\* The section count is compared with 9 and the section positions with
\* buf.len() only, so they are read capped just above.
rewrite_vanilla_keystone_source(buf) ==
    IF Len(buf) < 6 + 9 * 4 THEN RewriteResult(buf, "false")
    ELSE IF U32Capped(buf, 2, 10) = 0 \/ U32Capped(buf, 2, 10) > 9
    THEN RewriteResult(buf, "false")
    ELSE RewriteSections(buf, U32Capped(buf, 2, 10), U32Capped(buf, 6, Len(buf) + 1),
                         U32Capped(buf, 10, Len(buf) + 1))

\* Script bodies: the BITON 1,0,69,2 with room to spare; after a NOP in a
\* script of exactly the replacement's length; in a script too short for the
\* replacement; a BITON of another bit; the BITON's bytes inside the operand
\* of a variable-length opcode, where the walk does not look.
ScriptBodies ==
    { <<130, 16, 69, 2, 0, 0, 0, 0, 0, 0, 0>>,
      <<NOP, 130, 16, 69, 2, 0, 0, 0, 0>>,
      <<130, 16, 69, 2, 0>>,
      <<130, 16, 69, 3, 0, 0, 0, 0, 0, 0>>,
      <<OP_KAWAI, 6, 130, 16, 69, 2, 0, 0, 0, 0, 0>> }

MaxScripts == 2

RECURSIVE ScriptLists(_)
ScriptLists(n) ==
    IF n = 0 THEN {<<>>} ELSE {Append(q, b) : q \in ScriptLists(n - 1), b \in ScriptBodies}

\* The scripts follow a gap of two bytes, so that no script starts at 0.
ScriptGap == <<NOP, NOP>>

RECURSIVE BodyStarts(_, _, _)
BodyStarts(bodies, k, at) ==
    IF k > Len(bodies) THEN <<>> ELSE <<at>> \o BodyStarts(bodies, k + 1, at + Len(bodies[k]))

\* How the pointer table lists the scripts: in order; in reverse order; the
\* first one twice; with a further pointer past the scripts.
TableModes == {"ordered", "reversed", "twice", "beyond"}

Reverse(q) == [k \in 1..Len(q) |-> q[Len(q) + 1 - k]]

TablePointers(starts, mode) ==
    CASE mode = "ordered" -> starts
      [] mode = "reversed" -> Reverse(starts)
      [] mode = "twice" -> <<Head(starts)>> \o starts
      [] mode = "beyond" -> Append(starts, 600)

\* One entity's table of 32 pointers, the unused ones 0, the first one unused.
RECURSIVE PointerBytes(_, _)
PointerBytes(ptrs, k) ==
    IF k > Len(ptrs) THEN <<>> ELSE U16Bytes(ptrs[k]) \o PointerBytes(ptrs, k + 1)

ScriptTable(ptrs) ==
    <<0, 0>> \o PointerBytes(ptrs, 1) \o [k \in 1..(62 - 2 * Len(ptrs)) |-> 0]

\* What the header says of the text table: where it is, nothing, or a place
\* past the section.
PosTextsModes == {"right", "zero", "past"}

PosTextsFor(mode, right) ==
    CASE mode = "right" -> right [] mode = "zero" -> 0 [] mode = "past" -> right + 9

\* Section1 of one entity: header, entity name, pointer table, scripts, a text
\* table of one empty string; and Section1 without entities.
KeystoneSection1(bodies, table_mode, pos_mode) ==
    Section1Header(1, PosTextsFor(pos_mode, 32 + 8 + 64 + Len(ScriptGap) + Len(Concat(bodies, 1))), 0)
        \o [k \in 1..8 |-> 48 + k]
        \o ScriptTable(TablePointers(BodyStarts(bodies, 1, Len(ScriptGap)), table_mode))
        \o ScriptGap \o Concat(bodies, 1)
        \o <<1, 0, 4, 0, 255>>

NoEntitySection1 == Section1Header(0, 32 + 2, 0) \o ScriptGap \o <<1, 0, 4, 0, 255>>

\* The section counts a header may give: the usual 9, 1 (Section1 runs to the
\* end of the buffer), 0 and 10.
KeystoneCounts == {SECTION_COUNT, 1, 0, SECTION_COUNT + 1}

KeystoneBuffers(max_scripts) ==
    { CopyInto(FieldBuffer(KeystoneSection1(bodies, table_mode, pos_mode)), 2, U32Bytes(count)) :
        bodies \in UNION {ScriptLists(n) : n \in 1..max_scripts},
        table_mode \in TableModes, pos_mode \in PosTextsModes, count \in KeystoneCounts }
    \cup { FieldBuffer(NoEntitySection1), <<>>, [k \in 1..HEADER_LEN |-> 0] }

RwInit ==
    /\ FlIdle
    /\ KrIdle
    /\ LzIdle
    /\ WkIdle
    /\ KaIdle
    /\ LgIdle
    /\ TxIdle
    /\ DgIdle
    /\ SrIdle
    /\ FcIdle
    /\ r_buf \in KeystoneBuffers(MaxScripts)
    /\ r_orig = r_buf
    /\ r_ret = "pending"

RewriteCall ==
    /\ r_ret = "pending"
    /\ \E res \in {rewrite_vanilla_keystone_source(r_buf)} :
          /\ r_buf' = res.buf
          /\ r_ret' = res.ret
    /\ UNCHANGED r_orig
    /\ UNCHANGED rwRest

RwNext == RewriteCall

SpecRewrite == RwInit /\ [][RwNext]_vars

\* The script ranges the pointer tables of buffer o delimit: a range starts
\* where a pointer points and ends at the next greater start, or at the text
\* table.
ScriptsStartOf(o) == AkaoTableOf(o) + 4 * AkaoCountOf(o) + 64 * At(o, Sec1StartOf(o) + 2)

ScriptStartsOf(o) ==
    {ScriptsStartOf(o) + U16At(o, AkaoTableOf(o) + 4 * AkaoCountOf(o) + 2 * k) :
        k \in {j \in 0..(32 * At(o, Sec1StartOf(o) + 2) - 1) :
                  U16At(o, AkaoTableOf(o) + 4 * AkaoCountOf(o) + 2 * j) # 0}}

RangeEndOf(o, start) ==
    SetMin({e \in ScriptStartsOf(o) \cup {TextsBaseOf(o)} : e > start} \cup {TextsBaseOf(o)})

\* The bytes MESSAGE 0 0, STITM 0 0 1, RET compile to.
KeystoneBytes == <<64, 0, 0, 88, 0, 0, 0, 1, 0>>

HasBiton(o, start, end) ==
    \E pos \in start..(end - 4) : Slice(o, pos, pos + 4) = <<130, 16, 69, 2>>

ReplacedAt(o, b, start, end) ==
    /\ end - start >= Len(KeystoneBytes)
    /\ HasBiton(o, start, end)
    /\ b = SubSeq(o, 1, start) \o KeystoneBytes
             \o [k \in 1..(end - start - Len(KeystoneBytes)) |-> NOP]
             \o SubSeq(o, end + 1, Len(o))

\* The first script of the buffer starts with the BITON and is shorter than
\* the replacement.
ShortTargetFirst(o) ==
    \E start \in ScriptStartsOf(o) :
        /\ \A other \in ScriptStartsOf(o) : start <= other
        /\ RangeEndOf(o, start) <= TextsBaseOf(o)
        /\ RangeEndOf(o, start) - start \in 4..(Len(KeystoneBytes) - 1)
        /\ Slice(o, start, start + 4) = <<130, 16, 69, 2>>

\* C23: rewrite_vanilla_keystone_source never changes the buffer length; when
\* it returns true exactly one script's byte range [start, end) has been
\* replaced by the compiled MESSAGE 0 0 / STITM 0 0 1 / RET bytes followed by
\* NOP bytes 0x5F up to the original script length, and every byte outside
\* that range is unchanged; when the target script is shorter than the
\* replacement or no BITON 1,0,69,2 is found it returns false with the buffer
\* unchanged.
C23_ScriptReplaced ==
    r_ret \in {"true", "false"} =>
        /\ Len(r_buf) = Len(r_orig)
        /\ r_ret = "true" =>
              /\ \E start \in ScriptStartsOf(r_orig) :
                    /\ start < TextsBaseOf(r_orig)
                    /\ ReplacedAt(r_orig, r_buf, start, RangeEndOf(r_orig, start))
              /\ ~ShortTargetFirst(r_orig)
        /\ r_ret = "false" => r_buf = r_orig

\* The second of two scripts was replaced and padded with NOP.
C23_Witness ==
    /\ r_ret = "true"
    /\ r_buf # r_orig
    /\ \E start \in ScriptStartsOf(r_orig) :
          /\ start > ScriptsStartOf(r_orig) + Len(ScriptGap)
          /\ RangeEndOf(r_orig, start) - start > Len(KeystoneBytes)
          /\ ReplacedAt(r_orig, r_buf, start, RangeEndOf(r_orig, start))


(***************************************************************************)
(* run: the kernel part.  KERNEL.BIN is parsed, the initialisation section *)
(* and the weapon tables are decoded, changed and encoded again, and the   *)
(* container is rebuilt and written.  The gzip coder is a library: what it *)
(* returns is a choice among the outcomes a coder can have.                *)
(***************************************************************************)
WEAPON_RECORD_SIZE == 44
MODEL_INDEX_OFFSET == 12

MaxRunSections == 3
RunDirs == {1, 3, 6}

\* A container image of sections with one payload byte each.
RECURSIVE RunImage(_)
RunImage(dirs) ==
    IF dirs = <<>> THEN <<>>
    ELSE <<1, 0, 0, 0, Head(dirs), 0, 9>> \o RunImage(Tail(dirs))

\* A section header announcing five payload bytes that are not there.
TruncatedImage == <<5, 0, 0, 0, 3, 0>>

RunImages(max_sections) ==
    {RunImage(dirs) : dirs \in SeqsUpTo(RunDirs, max_sections)} \cup {TruncatedImage}

\* The settings the kernel part reads.  The four randomize_starting_* flags
\* are off, which makes randomize_starting_equipment_and_materia return at
\* its first test.
RunSettings ==
    [randomize_equipment : BOOLEAN, randomize_weapon_stats : BOOLEAN,
     keep_weapon_appearance : BOOLEAN]

AnyKernelFlag(settings) ==
    settings.randomize_equipment \/ settings.randomize_weapon_stats

WeaponFlag(settings) == settings.randomize_weapon_stats

\* n bytes, the records of WEAPON_RECORD_SIZE bytes differing from each other.
Content(n) == [k \in 1..n |-> ((k - 1) \div WEAPON_RECORD_SIZE + k) % 256]

DecodedLens == {0, 43, 44, 88, 65535, 65536}

\* decompress_kernel_section: read_to_end fails or yields the content.
GzDecodings(cmp_data) == {Err} \cup {Ok(Content(n)) : n \in DecodedLens}

\* GzEncoder: a short stream, or a stored one longer than its content.
GzEncodings(data) == {Content(20), Content(Len(data) + 23)}

\* `data.len() as u16` in place of u16::try_from.
CompressWrapping(data, gz) ==
    Ok([cmp_data |-> gz, raw_size |-> Len(data) % 65536])

compress_kernel_section(data, gz) ==
    IF Len(data) > 65535 THEN Err
    ELSE Ok([cmp_data |-> gz, raw_size |-> Len(data)])

randomize_starting_equipment_and_materia(kernel_data, settings) == kernel_data

\* indices.shuffle: any order of 0..n-1.
Perms(n) ==
    {p \in [0..(n - 1) -> 0..(n - 1)] : \A i, j \in 0..(n - 1) : i # j => p[i] # p[j]}

\* randomize_weapon_tables' `for (dst_idx, &src_idx) in indices.iter().enumerate()`.
Shuffled(data, indices, keep) ==
    [k \in 1..Len(data) |->
        IF keep /\ (k - 1) % WEAPON_RECORD_SIZE = MODEL_INDEX_OFFSET
        THEN data[k]
        ELSE data[indices[(k - 1) \div WEAPON_RECORD_SIZE] * WEAPON_RECORD_SIZE
                    + ((k - 1) % WEAPON_RECORD_SIZE) + 1]]

\* `.find(|f| f.dir_id == 3 && f.index == 0)`, 0 when there is none.
InitFiles(files) ==
    {k \in 1..Len(files) : files[k].dir_id = 3 /\ files[k].index = 0}

InitFile(files) ==
    IF InitFiles(files) = {} THEN 0
    ELSE CHOOSE k \in InitFiles(files) : \A j \in InitFiles(files) : k <= j

\* The longest compressed payload of the archive.
MaxCmpLen(files) == MaxOf({0} \cup {Len(files[k].cmp_data) : k \in 1..Len(files)})

KernelCall(fn, len, ok) == [fn |-> fn, len |-> len, ok |-> ok]

KrInit ==
    /\ FlIdle
    /\ RwIdle
    /\ DgIdle
    /\ SrIdle
    /\ FcIdle
    /\ LzIdle
    /\ WkIdle
    /\ KaIdle
    /\ LgIdle
    /\ TxIdle
    /\ kr_raw \in RunImages(MaxRunSections)
    /\ kr_set \in RunSettings
    /\ kr_pc = "parse"
    /\ kr_arch = Err
    /\ kr_k = 0
    /\ kr_out = Err
    /\ kr_call = KernelCall("none", 0, TRUE)
    /\ kr_size = <<>>
    /\ kr_fail = {}

\* `?` on a failed call: run returns the error.
RunAborts(k, fn, len) ==
    /\ kr_pc' = "aborted"
    /\ kr_call' = KernelCall(fn, len, FALSE)
    /\ kr_fail' = kr_fail \cup {k}
    /\ UNCHANGED <<kr_arch, kr_size>>

\* `file.cmp_data = cmp_data; file.raw_size = raw_size;`
RunStores(k, len, res, next_pc) ==
    /\ kr_pc' = next_pc
    /\ kr_call' = KernelCall("compress", len, TRUE)
    /\ kr_arch' = [kr_arch EXCEPT !.val.files[k].cmp_data = res.val.cmp_data,
                                  !.val.files[k].raw_size = res.val.raw_size]
    /\ kr_size' = [kr_size EXCEPT ![k] = len]
    /\ UNCHANGED kr_fail

RunEncodes(k, data, next_pc) ==
    \E gz \in GzEncodings(data) :
        \E res \in {compress_kernel_section(data, gz)} :
            IF res.ok THEN RunStores(k, Len(data), res, next_pc)
            ELSE RunAborts(k, "compress", Len(data))

RunSkips(next_pc) ==
    /\ kr_pc' = next_pc
    /\ UNCHANGED <<kr_arch, kr_call, kr_size, kr_fail>>

\* parse_kernel_archive(&kernel_bytes)? and build_kernel_archive(&kernel_archive)?
RunParsed(res, rebuilt) ==
    /\ kr_arch' = res
    /\ kr_size' = [k \in 1..Len(res.val.files) |-> -1]
    /\ kr_call' = KernelCall("build", MaxCmpLen(res.val.files), rebuilt.ok)
    /\ kr_pc' = IF ~rebuilt.ok THEN "aborted"
                ELSE IF AnyKernelFlag(kr_set) THEN "init" ELSE "write"

RunParse ==
    /\ kr_pc = "parse"
    /\ \E res \in {parse_kernel_archive(kr_raw)} :
          IF res.ok
          THEN \E rebuilt \in {build_kernel_archive(res.val)} : RunParsed(res, rebuilt)
          ELSE kr_pc' = "rejected" /\ UNCHANGED <<kr_arch, kr_size, kr_call>>
    /\ kr_k' = 1
    /\ UNCHANGED <<kr_raw, kr_set, kr_out, kr_fail>>
    /\ UNCHANGED krRest

\* `if let Some(init_file) = ... { decompress, randomize, compress }`
RunInitFile(k) ==
    \E decoded \in GzDecodings(kr_arch.val.files[k].cmp_data) :
        IF decoded.ok
        THEN RunEncodes(k, randomize_starting_equipment_and_materia(decoded.val, kr_set),
                        "weapons")
        ELSE RunAborts(k, "decompress", Len(kr_arch.val.files[k].cmp_data))

RunInit ==
    /\ kr_pc = "init"
    /\ \E k \in {InitFile(kr_arch.val.files)} :
          IF k = 0 THEN RunSkips("weapons") ELSE RunInitFile(k)
    /\ UNCHANGED <<kr_raw, kr_set, kr_k, kr_out>>
    /\ UNCHANGED krRest

\* One turn of randomize_weapon_tables' `for file in archive.files.iter_mut()`.
RunWeaponData(k, data) ==
    IF Len(data) < WEAPON_RECORD_SIZE \/ Len(data) % WEAPON_RECORD_SIZE # 0
           \/ Len(data) \div WEAPON_RECORD_SIZE <= 1
    THEN /\ kr_pc' = "weapons"
         /\ kr_call' = KernelCall("decompress", Len(kr_arch.val.files[k].cmp_data), TRUE)
         /\ UNCHANGED <<kr_arch, kr_size, kr_fail>>
    ELSE \E indices \in Perms(Len(data) \div WEAPON_RECORD_SIZE) :
            RunEncodes(k, Shuffled(data, indices, kr_set.keep_weapon_appearance),
                       "weapons")

RunWeaponFile(k) ==
    \E decoded \in GzDecodings(kr_arch.val.files[k].cmp_data) :
        IF decoded.ok THEN RunWeaponData(k, decoded.val)
        ELSE RunAborts(k, "decompress", Len(kr_arch.val.files[k].cmp_data))

RunWeaponSection ==
    /\ kr_pc = "weapons"
    /\ WeaponFlag(kr_set)
    /\ kr_k <= Len(kr_arch.val.files)
    /\ IF kr_arch.val.files[kr_k].dir_id # 6 THEN RunSkips("weapons")
       ELSE RunWeaponFile(kr_k)
    /\ kr_k' = kr_k + 1
    /\ UNCHANGED <<kr_raw, kr_set, kr_out>>
    /\ UNCHANGED krRest

\* randomize_weapon_tables returns Ok(()).
RunWeaponsDone ==
    /\ kr_pc = "weapons"
    /\ ~WeaponFlag(kr_set) \/ kr_k > Len(kr_arch.val.files)
    /\ kr_pc' = "write"
    /\ UNCHANGED <<kr_raw, kr_set, kr_arch, kr_k, kr_out, kr_call, kr_size, kr_fail>>
    /\ UNCHANGED krRest

\* `let new_kernel_bytes = if ... { build_kernel_archive(&kernel_archive)? }
\*  else { kernel_bytes.clone() }; fs::write(&kernel_dest, &new_kernel_bytes)?`
RunBuilt(res) ==
    /\ kr_call' = KernelCall("build", MaxCmpLen(kr_arch.val.files), res.ok)
    /\ kr_out' = res
    /\ kr_pc' = IF res.ok THEN "written" ELSE "aborted"

RunWrite ==
    /\ kr_pc = "write"
    /\ IF AnyKernelFlag(kr_set)
       THEN \E res \in {build_kernel_archive(kr_arch.val)} : RunBuilt(res)
       ELSE kr_out' = Ok(kr_raw) /\ kr_pc' = "written" /\ UNCHANGED kr_call
    /\ UNCHANGED <<kr_raw, kr_set, kr_arch, kr_k, kr_size, kr_fail>>
    /\ UNCHANGED krRest

KrNext == RunParse \/ RunInit \/ RunWeaponSection \/ RunWeaponsDone \/ RunWrite

SpecRun == KrInit /\ [][KrNext]_vars

\* The size fields of the written container, read back.
SizesWritten(back, files, size) ==
    /\ back.ok
    /\ Len(back.val.files) = Len(files)
    /\ \A k \in 1..Len(files) :
          /\ back.val.files[k].cmp_data = files[k].cmp_data
          /\ size[k] >= 0 => back.val.files[k].raw_size = size[k]

\* C21: compress_kernel_section fails on content longer than 65535 bytes,
\* build_kernel_archive fails, and nothing is written, when a compressed
\* payload is longer than 65535 bytes, and the size fields of a written
\* container are the lengths themselves, never their remainders modulo 2^16.
C21_SizeFieldsNeverWrap ==
    /\ kr_call.fn \in {"compress", "build"} /\ kr_call.len > 65535
          => ~kr_call.ok /\ kr_pc = "aborted" /\ ~kr_out.ok
    /\ kr_pc = "written"
          => SizesWritten(parse_kernel_archive(kr_out.val), kr_arch.val.files, kr_size)

C21_Witness ==
    /\ kr_pc = "aborted"
    /\ kr_call = KernelCall("build", 65558, FALSE)
    /\ \E k \in 1..Len(kr_size) : kr_size[k] = 65535

\* The files of the archive the run could have worked on: the initialisation
\* file, and the weapon tables when the weapon flag is set.
RunEligible(files, settings) ==
    {k \in 1..Len(files) : k = InitFile(files) \/ (WeaponFlag(settings) /\ files[k].dir_id = 6)}

RunEnded == kr_pc \in {"written", "aborted"}

\* C22: a kernel section that cannot be decoded or encoded again is skipped
\* and left as it was, and the run still writes its output: once the
\* container has been parsed, the run ends with KERNEL.BIN written, every
\* failed section being the parsed one.
C22_ErrorIsolation ==
    RunEnded =>
        /\ kr_out.ok
        /\ SizesWritten(parse_kernel_archive(kr_out.val), kr_arch.val.files, kr_size)
        /\ \A k \in kr_fail :
              kr_arch.val.files[k] = parse_kernel_archive(kr_raw).val.files[k]


(***************************************************************************)
(* run: the flevel part.  flevel.lgp is parsed, the orchestrator goes      *)
(* through its entries and registers a body for each field it changed, and *)
(* build_lgp_archive rebuilds the container from the replacements.         *)
(***************************************************************************)
RECURSIVE EncRun(_, _)
EncAfter(input, e) == IF e.len <= 0 THEN EncFinish(e) ELSE EncRun(input, e)

\* lzs_compress' main loop run to its end.
EncRun(input, e) == EncAfter(input, EncStep(input, e))

lzs_compress(input) ==
    IF input = <<>> THEN Ok(<<>>) ELSE Ok(EncRun(input, EncInit(input)))

RECURSIVE DecRun(_)
DecAfter(st) == IF st.ret THEN st.d.out ELSE DecRun(st.d)

\* lzs_decompress_raw's loop run to its end.
DecRun(d) == DecAfter(DecStep(d))

\* `let buf = lzs_decompress_raw(data)?; if buf.is_empty() { Err } else { Ok(buf) }`
DecodedWhole(out) == IF out = <<>> THEN Err ELSE Ok(out)

DecodedPrefixed(data, first) ==
    IF first # <<>> THEN Ok(first) ELSE DecodedWhole(DecRun(DecInit(data)))

lzs_decompress(data) ==
    IF data = <<>> THEN Err
    ELSE IF PayloadLen(data) > 0
    THEN DecodedPrefixed(data, DecRun(DecInit(HeaderPayload(data))))
    ELSE DecodedWhole(DecRun(DecInit(data)))

\* The names the orchestrator passes over: blackbg1..blackbg6 and tin_1.
SkippedNames ==
    {<<98, 108, 97, 99, 107, 98, 103, d>> : d \in 49..54} \cup {<<116, 105, 110, 95, 49>>}

\* The name in the header in front of the file's data.
FieldName(raw, off) == TrimEnd(Utf8Lossy(UpToNul(Slice(raw, off, off + NAME_LEN))))

\* `field_name.to_ascii_lowercase()`
FieldKey(raw, entry) == ToAsciiLowercase(FieldName(raw, entry.offset))

\* The offset of the next entry in the file, or the end of the file.
FileEndOf(raw, entries, offset) ==
    IF \E i \in 1..Len(entries) : entries[i].offset > offset
    THEN SetMin({entries[i].offset : i \in {j \in 1..Len(entries) : entries[j].offset > offset}})
    ELSE Len(raw)

\* The tests that make the loop `continue` before it decodes the entry.
FieldPassedOver(raw, entries, off) ==
    \/ off + ENTRY_HEADER > Len(raw)
    \/ FieldName(raw, off) = <<>>
    \/ ToAsciiLowercase(FieldName(raw, off)) \in SkippedNames
    \/ off + ENTRY_HEADER >= FileEndOf(raw, entries, off)
    \/ FileEndOf(raw, entries, off) > Len(raw)

\* What the script rewrites and the pickup randomisation leave of a decoded
\* field: the buffer as it was, or a buffer with bytes changed or added, and
\* `changed` set.
FieldEdits(buf) ==
    { [changed |-> FALSE, buf |-> buf],
      [changed |-> TRUE, buf |-> [buf EXCEPT ![1] = (@ + 1) % 256]],
      [changed |-> TRUE, buf |-> Append(buf, 2)] }

Untouched == [changed |-> FALSE, body |-> <<>>]

MaxFields == 2

\* Names in the TOC ("A", "b") and in the file headers ("a", "B", "c", none,
\* "tin_1").
FlTocNames == {<<65>>, <<98>>}
FlHeaderNames == {<<97>>, <<66>>, <<99>>, <<>>, <<116, 105, 110, 95, 49>>}
\* LZS streams: a flag byte and the literals it announces.
FlStreams == {<<1, 5>>, <<7, 1, 1, 1>>}

FieldFile(name, stream) == FileBlock(name, FieldBody(stream))

\* The offset of file k of a data area that starts at base.
RECURSIVE FileStart(_, _, _, _)
FileStart(base, names, streams, k) ==
    IF k = 1 THEN base
    ELSE FileStart(base, names, streams, k - 1) + Len(FieldFile(names[k - 1], streams[k - 1]))

RECURSIVE FieldFiles(_, _, _)
FieldFiles(names, streams, k) ==
    IF k > Len(names) THEN <<>>
    ELSE FieldFile(names[k], streams[k]) \o FieldFiles(names, streams, k + 1)

FlevelImage(toc, names, streams, tail) ==
    LgpImage(toc,
             [k \in 1..Len(toc) |-> FileStart(TOC_START + Len(toc) * ENTRY_SIZE, names, streams, k)],
             <<>>, FieldFiles(names, streams, 1), tail)

FlevelImages(max_fields) ==
    UNION { { FlevelImage(toc, names, streams, tail) :
                toc \in [1..n -> FlTocNames], names \in [1..n -> FlHeaderNames],
                streams \in [1..n -> FlStreams], tail \in Tails } : n \in 1..max_fields }
    \cup {<<>>}

FlInit ==
    /\ KrIdle
    /\ RwIdle
    /\ DgIdle
    /\ SrIdle
    /\ FcIdle
    /\ LzIdle
    /\ WkIdle
    /\ KaIdle
    /\ TxIdle
    /\ g_raw \in FlevelImages(MaxFields)
    /\ g_repl = <<>>
    /\ g_pc = "parse"
    /\ g_arch = Err
    /\ g_out = Err
    /\ fl_k = 0
    /\ fl_log = <<>>

\* `let flevel_archive = parse_lgp_archive(&flevel_bytes)?;`
FlevelParse ==
    /\ g_pc = "parse"
    /\ g_arch' = parse_lgp_archive(g_raw)
    /\ g_pc' = IF g_arch'.ok THEN "fields" ELSE "rejected"
    /\ fl_k' = 1
    /\ UNCHANGED <<g_raw, g_repl, g_out, fl_log>>
    /\ UNCHANGED <<lzVars, wkVars, kaVars, txVars, dgVars, srVars, fcVars, rwVars, krVars>>

\* `field_replacements.insert(field_name.to_ascii_lowercase(), body);`
FieldRegisters(key, body) ==
    /\ g_repl' = (key :> body) @@ g_repl
    /\ fl_log' = Append(fl_log, [changed |-> TRUE, body |-> body])

FieldKept ==
    /\ g_repl' = g_repl
    /\ fl_log' = Append(fl_log, Untouched)

FieldDecoded(entry, res) ==
    IF res.ok
    THEN \E edit \in FieldEdits(res.val) :
            IF edit.changed
            THEN FieldRegisters(FieldKey(g_raw, entry),
                                FieldBody(lzs_compress(edit.buf).val))
            ELSE FieldKept
    ELSE FieldKept

\* One turn of `for (entry_index, entry) in flevel_archive.entries.iter().enumerate()`.
FieldEntry ==
    /\ g_pc = "fields"
    /\ fl_k <= Len(g_arch.val.entries)
    /\ \E entry \in {g_arch.val.entries[fl_k]} :
          IF FieldPassedOver(g_raw, g_arch.val.entries, entry.offset)
          THEN FieldKept
          ELSE \E res \in {lzs_decompress(Slice(g_raw, entry.offset + ENTRY_HEADER,
                                               FileEndOf(g_raw, g_arch.val.entries,
                                                         entry.offset)))} :
                  FieldDecoded(entry, res)
    /\ fl_k' = fl_k + 1
    /\ UNCHANGED <<g_raw, g_pc, g_arch, g_out>>
    /\ UNCHANGED <<lzVars, wkVars, kaVars, txVars, dgVars, srVars, fcVars, rwVars, krVars>>

\* The loop is over: `build_lgp_archive(&flevel_archive, &flevel_bytes,
\* &field_replacements)?` and the write of the result.
FlevelBuild ==
    /\ g_pc = "fields"
    /\ fl_k > Len(g_arch.val.entries)
    /\ g_out' = build_lgp_archive(g_arch.val, g_raw, g_repl)
    /\ g_pc' = "done"
    /\ UNCHANGED <<g_raw, g_repl, g_arch, fl_k, fl_log>>
    /\ UNCHANGED <<lzVars, wkVars, kaVars, txVars, dgVars, srVars, fcVars, rwVars, krVars>>

FlNext == FlevelParse \/ FieldEntry \/ FlevelBuild

SpecFlevel == FlInit /\ [][FlNext]_vars

\* The body of entry i of a rebuilt archive.
RebuiltBody(out, i) ==
    OriginalBody(out, parse_lgp_archive(out).val.entries[i].offset)

====
